---------------------------- MODULE Spec2Model ----------------------------
(***************************************************************************)
(* A model of the rule library drone_scheduling_rules/rules.py.            *)
(*                                                                         *)
(* The library is a set of static rule functions that a solver calls in a  *)
(* call/return loop over a shared resource dictionary ("resources", the    *)
(* ledger) and a solution object.  Each rule is modelled as an operator    *)
(* that computes what the Python code computes, and as an action that      *)
(* applies the rule to inputs drawn from bounded sets and records the call *)
(* and its return value.  One specification per rule family keeps the      *)
(* families' state spaces apart:                                           *)
(*   SpecRunway      runway capacity checks and occupancy recording        *)
(*   SpecSequence    check_drone_task_sequence                             *)
(*   SpecPayload     payload_capacity                                      *)
(*   SpecWorkload    _check_airport_constraints                            *)
(*   SpecWeight      calculate_task_weight                                 *)
(*   SpecSort        sort_tasks_by_weight                                  *)
(*   SpecStatus      airport_open_check and update_airport_status          *)
(*   SpecReadOnly    the constraint checks called twice on one ledger      *)
(*   SpecDiscipline  runway check, then record when it returned True       *)
(*   SpecGeo         line of sight, threat safety, position scoring        *)
(*   SpecEfficiency  total distance and completion time metrics            *)
(*   SpecTimeWindow  time_window_constraint                                *)
(***************************************************************************)
EXTENDS Integers, Sequences, FiniteSets, TLC

VARIABLES
    \* ---- runway ledger (resources) and the last runway call
    runway_counts,      \* resources['runway_counts']: airport id -> runway count
    takeoff_duration,   \* resources['takeoff_duration'] or Absent
    landing_duration,   \* resources['landing_duration'] or Absent
    runway_occupancy,   \* resources['runway_occupancy']: airport id -> list of tuples
    rw_call,            \* the last runway rule call and what it returned
    \* ---- one call of check_drone_task_sequence
    task_ids,           \* the input list of task ids
    task_dict,          \* the ids the task dictionary holds a task for
    seq_pc,             \* where the call is
    seq_i,              \* the loop index i (1-based here)
    results,            \* the result map: task id -> status
    current_time,       \* the clock of the simulated drone state
    legs,               \* the legs simulated: how far location, range and payload advanced
    evaluated,          \* the indexes whose feasibility was evaluated
    first_fail,         \* the index of the first task found not feasible, 0 if none
    \* ---- payload_capacity
    weapon_inventory,   \* resources['weapon_inventory'], if the key is there
    pl_call,            \* the last payload_capacity call and what it returned
    \* ---- _check_airport_constraints
    assignments,        \* solution.assignments: drone key -> list of task ids
    drone_info,         \* solution.drone_info: drone key -> type
    airports,           \* the airports dictionary: airport id -> limits
    wl_call,            \* the last _check_airport_constraints call and its result
    \* ---- calculate_task_weight
    wt_call,            \* the last calculate_task_weight call and its result
    \* ---- one call of sort_tasks_by_weight
    sort_tasks,         \* the input list
    sort_pc,            \* where the call is
    task_weights,       \* the list of (weight, task) pairs
    sort_ret,            \* the list returned
    \* ---- airport status: airport_open_check, update_airport_status
    airport_status,     \* resources['airport_status'], if the key is there
    status_updates,     \* the update_airport_status calls made so far, in order
    st_call,             \* the last airport status call and what it returned
    \* ---- the quota and maintenance ledgers, and a read-only rule called twice
    type_counts,        \* resources['type_counts']: drone type -> count
    type_limits,        \* resources['type_limits']: drone type -> limit
    maintenance_remaining,  \* resources['maintenance_remaining'], if the key is there
    ro_call,            \* a call of a read-only rule and what it returned
    ro_again,            \* what the same call returned when made again
    \* ---- the geographic rules
    geo_call,            \* the last call of a geographic rule and how it ended
    \* ---- the efficiency rules
    eff_solution,       \* the solution: its assignments and metrics, if it has them
    eff_replay,         \* what the route replay does for each drone key
    eff_call,            \* the last call of an efficiency rule and how it ended
    \* ---- time_window_constraint
    tw_call             \* the last time_window_constraint call and what it returned

runway_vars == <<runway_counts, takeoff_duration, landing_duration,
                 runway_occupancy, rw_call>>

seq_vars == <<task_ids, task_dict, seq_pc, seq_i, results, current_time, legs,
              evaluated, first_fail>>

payload_vars == <<weapon_inventory, pl_call>>

workload_vars == <<assignments, drone_info, airports, wl_call>>

weight_vars == <<wt_call>>

sort_vars == <<sort_tasks, sort_pc, task_weights, sort_ret>>

status_vars == <<airport_status, status_updates, st_call>>

readonly_vars == <<type_counts, type_limits, maintenance_remaining, ro_call, ro_again>>

geo_vars == <<geo_call>>

eff_vars == <<eff_solution, eff_replay, eff_call>>

tw_vars == <<tw_call>>

vars == <<runway_vars, seq_vars, payload_vars, workload_vars, weight_vars, sort_vars,
         status_vars,
         readonly_vars,
         geo_vars,
         eff_vars,
         tw_vars>>

\* A dictionary key or an attribute that is not there (no number the model uses).
Absent == 0 - 1

Max(a, b) == IF a >= b THEN a ELSE b

Min(a, b) == IF a <= b THEN a ELSE b

(***************************************************************************)
(* 1. Runway capacity: takeoff_runway_capacity, landing_runway_capacity,   *)
(*    update_runway_occupancy                                              *)
(***************************************************************************)

\* Bounds of the runway model.
MaxTime == 2

MaxDur == 2

MaxOcc == 2

MaxRunways == 2

\* Program constants: the .get() defaults of the runway rules.
DefaultRunwayCount == 1

DefaultTakeoffDuration == 5

DefaultLandingDuration == 5

Airports == {1, 2}

\* Drones 1 and 2 are based at airports 1 and 2; drone 3 has no home airport
\* (drone.airport is None).
Drones == {1, 2, 3}

DroneAirport(d) == IF d \in Airports THEN d ELSE Absent

\* dict.get(key, default) on a dictionary modelled as a function.
Get(dict, key, default) == IF key \in DOMAIN dict THEN dict[key] ELSE default

\* The resources dictionary as the runway rules read it.
RunwayResources ==
    [runway_counts |-> runway_counts,
     takeoff_duration |-> takeoff_duration,
     landing_duration |-> landing_duration,
     runway_occupancy |-> runway_occupancy]

\* resources.get('takeoff_duration', 5.0)
TakeoffDurationOf(resources) ==
    IF resources.takeoff_duration = Absent THEN DefaultTakeoffDuration
    ELSE resources.takeoff_duration

\* resources.get('landing_duration', 5.0)
LandingDurationOf(resources) ==
    IF resources.landing_duration = Absent THEN DefaultLandingDuration
    ELSE resources.landing_duration

\* The overlap test with the comparisons closed: windows that only touch overlap.
takeoff_overlaps_closed(window_start, window_end, occupied_start, occupied_end) ==
    ~(window_end < occupied_start \/ window_start > occupied_end)

\* rules.py line 151: not (window_end <= occupied_start or window_start >= occupied_end)
takeoff_overlaps(window_start, window_end, occupied_start, occupied_end) ==
    ~(window_end <= occupied_start \/ window_start >= occupied_end)

\* rules.py line 211, the same test in landing_runway_capacity.
landing_overlaps(window_start, window_end, occupied_start, occupied_end) ==
    ~(window_end <= occupied_start \/ window_start >= occupied_end)

\* The loop of lines 148-152: overlapping_count over the occupancy list.
RECURSIVE takeoff_overlapping_count(_, _, _)
takeoff_overlapping_count(occupancy, window_start, window_end) ==
    IF occupancy = <<>> THEN 0
    ELSE (IF takeoff_overlaps(window_start, window_end,
                              Head(occupancy)[1], Head(occupancy)[2])
          THEN 1 ELSE 0)
         + takeoff_overlapping_count(Tail(occupancy), window_start, window_end)

\* The loop of lines 208-212.
RECURSIVE landing_overlapping_count(_, _, _)
landing_overlapping_count(occupancy, window_start, window_end) ==
    IF occupancy = <<>> THEN 0
    ELSE (IF landing_overlaps(window_start, window_end,
                              Head(occupancy)[1], Head(occupancy)[2])
          THEN 1 ELSE 0)
         + landing_overlapping_count(Tail(occupancy), window_start, window_end)

\* The takeoff check refusing only when the count exceeds the runway count.
takeoff_runway_capacity_lax(drone, event_time, resources) ==
    IF DroneAirport(drone) = Absent
    THEN [result |-> FALSE, overlapping_count |-> 0]
    ELSE LET airport_id == DroneAirport(drone)
             runway_count == Get(resources.runway_counts, airport_id, DefaultRunwayCount)
             window_start == event_time
             window_end == event_time + TakeoffDurationOf(resources)
             occupancy == Get(resources.runway_occupancy, airport_id, <<>>)
             overlapping_count ==
                 takeoff_overlapping_count(occupancy, window_start, window_end)
         IN  [result |-> ~(overlapping_count > runway_count),
              overlapping_count |-> overlapping_count]

\* takeoff_runway_capacity(drone, task, event_time, resources): the return value
\* and the overlapping_count it printed (0 when it returned before counting).
takeoff_runway_capacity(drone, event_time, resources) ==
    IF DroneAirport(drone) = Absent
    THEN [result |-> FALSE, overlapping_count |-> 0]
    ELSE LET airport_id == DroneAirport(drone)
             runway_count == Get(resources.runway_counts, airport_id, DefaultRunwayCount)
             window_start == event_time
             window_end == event_time + TakeoffDurationOf(resources)
             occupancy == Get(resources.runway_occupancy, airport_id, <<>>)
             overlapping_count ==
                 takeoff_overlapping_count(occupancy, window_start, window_end)
         IN  [result |-> ~(overlapping_count >= runway_count),
              overlapping_count |-> overlapping_count]

\* landing_runway_capacity(drone, task, event_time, resources).
landing_runway_capacity(drone, event_time, resources) ==
    IF DroneAirport(drone) = Absent
    THEN [result |-> FALSE, overlapping_count |-> 0]
    ELSE LET airport_id == DroneAirport(drone)
             runway_count == Get(resources.runway_counts, airport_id, DefaultRunwayCount)
             window_start == event_time
             window_end == event_time + LandingDurationOf(resources)
             occupancy == Get(resources.runway_occupancy, airport_id, <<>>)
             overlapping_count ==
                 landing_overlapping_count(occupancy, window_start, window_end)
         IN  [result |-> ~(overlapping_count >= runway_count),
              overlapping_count |-> overlapping_count]

\* update_runway_occupancy that skips a record the list already holds.
update_runway_occupancy_dedup(airport_id, event_time, event_duration, drone_id, event_type, occupancy) ==
    LET old == Get(occupancy, airport_id, <<>>)
        occupancy_record ==
            <<event_time, event_time + event_duration, drone_id, event_type>>
    IN  [a \in (DOMAIN occupancy) \cup {airport_id} |->
            IF a # airport_id THEN occupancy[a]
            ELSE IF \E i \in DOMAIN old : old[i] = occupancy_record THEN old
            ELSE Append(old, occupancy_record)]

\* update_runway_occupancy: the runway_occupancy dictionary afterwards.
update_runway_occupancy(airport_id, event_time, event_duration, drone_id, event_type, occupancy) ==
    LET old == Get(occupancy, airport_id, <<>>)
        occupancy_record ==
            <<event_time, event_time + event_duration, drone_id, event_type>>
    IN  [a \in (DOMAIN occupancy) \cup {airport_id} |->
            IF a = airport_id THEN Append(old, occupancy_record) ELSE occupancy[a]]

NoCall == [op |-> "none"]

\* The runway family at rest, for the specifications of the other families.
RunwayIdle ==
    /\ runway_counts = <<>>
    /\ takeoff_duration = Absent
    /\ landing_duration = Absent
    /\ runway_occupancy = <<>>
    /\ rw_call = NoCall

(***************************************************************************)
(* 2. TaskCharacteristicRules.check_drone_task_sequence                    *)
(*                                                                         *)
(* The call borrows a SolutionChecker (module solution_checker, outside    *)
(* this package): _calculate_optimal_takeoff_time,                         *)
(* _check_single_task_feasibility, _simulate_task_execution and            *)
(* _consume_task_payload are collaborator calls, each of which may return  *)
(* or raise; the import itself may fail.                                   *)
(***************************************************************************)

\* Bounds of the sequence model.
MaxTaskId == 3

MaxSeqLen == 3

MaxClock == 1

TaskIds == 1..MaxTaskId

\* The statuses of the result map.
Feasible == "feasible"                  \* "可行"

Infeasible == "infeasible: reason"      \* a reason string of the collaborator

CheckFailed == "check failed"           \* f"检查失败: {e}"

TaskMissing == "task does not exist"    \* f"任务{task_id}不存在"

Cascade == "blocked by earlier failure" \* "前序任务不可行导致无法执行"

ExecFailed == "execution failed"        \* f"执行失败: {e}"

NoModule == "no SolutionChecker module" \* "缺少SolutionChecker模块，无法检查任务序列"

Statuses == {Feasible, Infeasible, CheckFailed, TaskMissing, Cascade, ExecFailed, NoModule}

\* results[task_id] = status
SetResult(res, task_id, status) ==
    [x \in (DOMAIN res) \cup {task_id} |-> IF x = task_id THEN status ELSE res[x]]

\* The cascade loop with its range cut to the next task only.
mark_cascade_next_only(res, ids, j) ==
    IF j > Len(ids) THEN res ELSE SetResult(res, ids[j], Cascade)

\* Lines 518-520 and 536-538: for j in range(i + 1, len(task_ids)):
\* results[task_ids[j]] = cascade reason.  j is the first index to mark.
RECURSIVE mark_cascade(_, _, _)
mark_cascade(res, ids, j) ==
    IF j > Len(ids) THEN res
    ELSE mark_cascade(SetResult(res, ids[j], Cascade), ids, j + 1)

\* Lines 487-489: every id gets the missing-module message.
RECURSIVE mark_no_module(_, _, _)
mark_no_module(res, ids, j) ==
    IF j > Len(ids) THEN res
    ELSE mark_no_module(SetResult(res, ids[j], NoModule), ids, j + 1)

\* The sequence family at rest.
SeqIdle ==
    /\ task_ids = <<>>
    /\ task_dict = {}
    /\ seq_pc = "idle"
    /\ seq_i = 0
    /\ results = <<>>
    /\ current_time = 0
    /\ legs = 0
    /\ evaluated = {}
    /\ first_fail = 0

(***************************************************************************)
(* 3. AircraftCapabilityRules.payload_capacity                             *)
(***************************************************************************)

\* Bound of the payload model: ranges, levels and quantities are 0..MaxVal.
MaxVal == 1

\* Line 326: the payload key of the consumable strike kind.
StrikeKind == 1

\* Another payload kind (a sensor), not consumable.
SensorKind == 2

PayloadKinds == {StrikeKind, SensorKind}

PayloadVals == 0..MaxVal

\* The messages payload_capacity prints last before it returns False.
MsgMatchFailed == "payload match failed"          \* "载荷匹配失败"

MsgInventoryShort == "weapon inventory short"     \* "武器库存不足"

MsgNone == "none"

\* Line 320 with "and" for "or".
payload_short_both(drone_range, drone_level, req_range, req_level) ==
    drone_range < req_range /\ drone_level < req_level

\* Line 320: drone_range < req_range or drone_level < req_level
payload_short(drone_range, drone_level, req_range, req_level) ==
    drone_range < req_range \/ drone_level < req_level

\* Line 341 with the comparison turned round.
weapon_short_reversed(available_count, needed_count) == available_count > needed_count

\* Line 341: available_count < needed_count
weapon_short(available_count, needed_count) == available_count < needed_count

\* Lines 307-328: the loop over task.required_payloads.items(), in the
\* dictionary's order, from item k on; required_weapons is what was recorded
\* so far.  The loop breaks at the first kind the drone lacks or falls short of.
RECURSIVE payload_match_loop(_, _, _, _)
payload_match_loop(drone, items, k, required_weapons) ==
    IF k > Len(items)
    THEN [payload_match |-> TRUE, required_weapons |-> required_weapons]
    ELSE LET payload_key == items[k][1]
             req_range == items[k][2][1]
             req_level == items[k][2][2]
         IN  IF ~drone.has_payload_capability
                \/ payload_key \notin DOMAIN drone.payload_capability
             THEN [payload_match |-> FALSE, required_weapons |-> required_weapons]
             ELSE IF payload_short(drone.payload_capability[payload_key][1],
                                   drone.payload_capability[payload_key][2],
                                   req_range, req_level)
             THEN [payload_match |-> FALSE, required_weapons |-> required_weapons]
             ELSE payload_match_loop(drone, items, k + 1,
                      IF payload_key = StrikeKind
                      THEN [x \in (DOMAIN required_weapons) \cup {payload_key} |->
                               IF x = payload_key THEN req_level ELSE required_weapons[x]]
                      ELSE required_weapons)

\* Lines 338-344: some required weapon is short in the inventory.
weapon_insufficient(required_weapons, inventory) ==
    \E weapon_key \in DOMAIN required_weapons :
        weapon_short(Get(inventory, weapon_key, 0), required_weapons[weapon_key])

\* payload_capacity(drone, task, resources): the value returned, whether the
\* inventory was fetched (line 336 was reached), and the last message printed.
payload_capacity(drone, task, resources) ==
    LET required_payloads ==
            IF task.has_required_payloads THEN task.required_payloads ELSE <<>>
        phase1 == payload_match_loop(drone, required_payloads, 1, <<>>)
    IN  IF ~phase1.payload_match
        THEN [result |-> FALSE, inspected |-> FALSE, msg |-> MsgMatchFailed]
        ELSE LET inventory ==
                     IF resources.has_weapon_inventory
                     THEN resources.weapon_inventory ELSE <<>>
             IN  IF weapon_insufficient(phase1.required_weapons, inventory)
                 THEN [result |-> FALSE, inspected |-> TRUE, msg |-> MsgInventoryShort]
                 ELSE [result |-> TRUE, inspected |-> TRUE, msg |-> MsgNone]

\* Partial functions from S to T.
PartialFns(S, T) == UNION {[K -> T] : K \in SUBSET S}

\* The drones: without the payload_capability attribute, or with any
\* capability map kind -> (range, level).
PayloadDrones ==
    {[has_payload_capability |-> FALSE, payload_capability |-> <<>>]}
    \cup {[has_payload_capability |-> TRUE, payload_capability |-> f] :
             f \in PartialFns(PayloadKinds, PayloadVals \X PayloadVals)}

\* The requirement dictionaries, as the list of their items in iteration order.
RequirementItems ==
    {items \in UNION {[1..k -> PayloadKinds \X (PayloadVals \X PayloadVals)] : k \in 0..2} :
        \A i, j \in DOMAIN items : items[i][1] = items[j][1] => i = j}

\* The tasks: without the required_payloads attribute, or with any requirements.
PayloadTasks ==
    {[has_required_payloads |-> FALSE, required_payloads |-> <<>>]}
    \cup {[has_required_payloads |-> TRUE, required_payloads |-> items] :
             items \in RequirementItems}

\* The ledger's inventory: no 'weapon_inventory' key, or a map that may or may
\* not hold a count for the strike kind.
Inventories ==
    {[has_weapon_inventory |-> FALSE, weapon_inventory |-> <<>>]}
    \cup {[has_weapon_inventory |-> TRUE, weapon_inventory |-> f] :
             f \in PartialFns({StrikeKind}, PayloadVals)}

NoPayloadCall == [op |-> "none"]

\* The payload family at rest.
PayloadIdle ==
    /\ weapon_inventory = [has_weapon_inventory |-> FALSE, weapon_inventory |-> <<>>]
    /\ pl_call = NoPayloadCall

(***************************************************************************)
(* 4. AirportCapabilityRules._check_airport_constraints                    *)
(***************************************************************************)

\* Bound of the workload model: the limits are 0..MaxLimit.
MaxLimit == 2

\* Drone types.
TypeA == 1

TypeB == 2

DroneTypes == {TypeA, TypeB}

\* str(n) for a natural number, as the sequence of its characters.
Digit(d) == <<"0", "1", "2", "3", "4", "5", "6", "7", "8", "9">>[d + 1]

RECURSIVE Str(_)
Str(n) == IF n < 10 THEN <<Digit(n)>> ELSE Str(n \div 10) \o <<Digit(n % 10)>>

\* The key of drone n of airport a in solution.assignments: f"{a}_{n}".
DroneKey(a, n) == Str(a) \o <<"_">> \o Str(n)

\* key.startswith(prefix)
StartsWith(key, prefix) ==
    /\ Len(key) >= Len(prefix)
    /\ SubSeq(key, 1, Len(prefix)) = prefix

\* The fleet: three drones at airport 1 and one at airport 11 (an id of which
\* "1" is a prefix), as (airport id, number).
WorkloadAirports == {1, 11}

Fleet == {<<1, 1>>, <<1, 2>>, <<1, 3>>, <<11, 1>>}

DroneKeys == {DroneKey(d[1], d[2]) : d \in Fleet}

\* Line 91 with the comparison strict.
total_limit_reached_strict(used_total, total_limits) == used_total > total_limits

\* Line 91: used_total >= airport.total_limits
total_limit_reached(used_total, total_limits) == used_total >= total_limits

\* Line 98: current_type_used >= type_limit
type_limit_reached(current_type_used, type_limit) == current_type_used >= type_limit

\* Lines 82-86: the keys counted for the airport: a non-empty task list and a
\* key that starts with f"{airport_id}_".
used_keys(assign, airport_id) ==
    {key \in DOMAIN assign :
        assign[key] # <<>> /\ StartsWith(key, Str(airport_id) \o <<"_">>)}

\* Line 89: target_drone_key not in solution.assignments or not
\* solution.assignments[target_drone_key]
has_no_tasks(assign, key) == IF key \in DOMAIN assign THEN assign[key] = <<>> ELSE TRUE

\* _check_airport_constraints(solution, airport_id, drone_type, airports, target_drone_key)
check_airport_constraints(assign, info, airport_id, drone_type, airport_dict, target_drone_key) ==
    LET airport == airport_dict[airport_id]
        used_total == Cardinality(used_keys(assign, airport_id))
        current_type_used ==
            Cardinality({key \in used_keys(assign, airport_id) : info[key] = drone_type})
        type_limit ==
            IF airport.has_type_limits THEN Get(airport.type_limits, drone_type, 0) ELSE 0
    IN  IF has_no_tasks(assign, target_drone_key)
        THEN IF airport.has_total_limits
                /\ total_limit_reached(used_total, airport.total_limits)
             THEN FALSE
             ELSE IF type_limit_reached(current_type_used, type_limit)
             THEN FALSE
             ELSE TRUE
        ELSE TRUE

\* The airport objects: total_limits there or not, type_limits there or not,
\* and a type_limits map that may lack a type.
AirportObjects ==
    {[has_total_limits |-> ht, total_limits |-> IF ht THEN tl ELSE 0,
      has_type_limits |-> hy, type_limits |-> IF hy THEN f ELSE <<>>] :
        ht \in BOOLEAN, tl \in 0..MaxLimit, hy \in BOOLEAN,
        f \in PartialFns(DroneTypes, 0..MaxLimit)}

\* The type caches: all drones of type A, or drone 3 of airport 1 of type B.
DroneInfos ==
    {[key \in DroneKeys |-> TypeA],
     [key \in DroneKeys |-> IF key = DroneKey(1, 3) THEN TypeB ELSE TypeA]}

NoWorkloadCall == [op |-> "none"]

\* The workload family at rest.
WorkloadIdle ==
    /\ assignments = <<>>
    /\ drone_info = <<>>
    /\ airports = <<>>
    /\ wl_call = NoWorkloadCall

(***************************************************************************)
(* 5. TaskCharacteristicRules.calculate_task_weight, sort_tasks_by_weight  *)
(*                                                                         *)
(* The weight is a float; the model computes it exactly, as an integer     *)
(* number of 1/WeightScale units.  With WeightScale = 12000 every term is  *)
(* an integer for durations in whole seconds, integer bandwidths and at    *)
(* most six required types.                                                *)
(***************************************************************************)

WeightScale == 12000

\* Bounds of the weight model.
MaxPriority == 11

DurationStep == 9000

MaxDurationSteps == 5

MaxPayloads == 6

MaxTypes == 3

BandwidthStep == 50

MaxBandwidthSteps == 3

\* Line 577: the priority of a task without the attribute.
DefaultPriority == 5

\* Line 579 without the clamp.
clamp_priority_none(priority) == priority

\* Line 579: max(1, min(10, task.priority))
clamp_priority(priority) == Max(1, Min(10, priority))

\* Line 582 with the mapping not reversed.
priority_weight_direct(priority) == priority * 7 * WeightScale

\* Line 582: (11 - priority) * 7.0
priority_weight(priority) == (11 - priority) * 7 * WeightScale

\* Lines 592-593: min(task_duration / 3600 * 0.3, 3.0)
duration_weight(task_duration) ==
    Min((task_duration * 3 * WeightScale) \div 36000, 3 * WeightScale)

\* Lines 597-598: min(payload_count * 0.6, 3.0), the count 1 for an empty map
payload_weight(n_payloads) ==
    LET payload_count == IF n_payloads # 0 THEN n_payloads ELSE 1
    IN  Min((payload_count * 6 * WeightScale) \div 10, 3 * WeightScale)

\* Lines 602-603: 9.0 / type_count, the count 1 for an empty list
type_weight(n_types) ==
    LET type_count == IF n_types # 0 THEN n_types ELSE 1
    IN  (9 * WeightScale) \div type_count

\* Line 607: min(task_bandwidth / 10.0 * 0.9, 9.0)
bandwidth_weight(task_bandwidth) ==
    Min((task_bandwidth * 9 * WeightScale) \div 100, 9 * WeightScale)

\* calculate_task_weight(task), for a task whose attributes are numbers.
calculate_task_weight(task) ==
    LET priority == IF ~task.has_priority THEN DefaultPriority
                    ELSE clamp_priority(task.priority)
    IN  priority_weight(priority)
        + duration_weight(task.duration)
        + payload_weight(task.n_payloads)
        + type_weight(task.n_types)
        + bandwidth_weight(task.bandwidth)

\* The tasks calculate_task_weight is applied to: priority missing or from 0
\* (below the range) to MaxPriority (above it), durations up to beyond the cap
\* of ten hours, payload and type counts from empty, bandwidths beyond the cap.
WeightTasks ==
    {[id |-> 1, valid |-> TRUE, has_priority |-> hp, priority |-> IF hp THEN p ELSE 0,
      duration |-> d * DurationStep, n_payloads |-> np, n_types |-> nt,
      bandwidth |-> b * BandwidthStep] :
        hp \in BOOLEAN, p \in 0..MaxPriority, d \in 0..MaxDurationSteps,
        np \in 0..MaxPayloads, nt \in 0..MaxTypes, b \in 0..MaxBandwidthSteps}

NoWeightCall == [op |-> "none"]

\* The weight family at rest.
WeightIdle == wt_call = NoWeightCall

\* Bounds of the sort model.
MaxSortLen == 3

MaxSortPriority == 2

\* The sort key of line 646-650: the weight, or 0.0 when computing it raised.
sort_key(task) == IF task.valid THEN calculate_task_weight(task) ELSE 0

Reverse(list) == [k \in 1..Len(list) |-> list[Len(list) + 1 - k]]

\* A stable ascending insertion of pair into a list sorted by its first
\* component: after every pair whose key is <= its key.
RECURSIVE insert_ascending(_, _)
insert_ascending(sorted, pair) ==
    IF sorted = <<>> THEN <<pair>>
    ELSE IF Head(sorted)[1] <= pair[1]
    THEN <<Head(sorted)>> \o insert_ascending(Tail(sorted), pair)
    ELSE <<pair>> \o sorted

RECURSIVE sort_ascending(_)
sort_ascending(list) ==
    IF list = <<>> THEN <<>>
    ELSE insert_ascending(sort_ascending(SubSeq(list, 1, Len(list) - 1)), list[Len(list)])

\* An ascending sort followed by a reversal: descending, ties reversed.
sort_descending_reversed(list) == Reverse(sort_ascending(list))

\* Line 653: task_weights.sort(key=lambda x: x[0], reverse=True).  list.sort
\* is stable, and reverse=True keeps the original order of equal keys: it
\* sorts the reversed list ascending and reverses the result.
sort_descending(list) == Reverse(sort_ascending(Reverse(list)))

\* Bounds of the sort model.
MaxSortIds == 2

\* The tasks of a list to sort: a task is one of MaxSortIds objects of
\* priority 0..MaxSortPriority (0 and 1 weigh the same), or an object whose
\* weight cannot be computed (valid = FALSE).  A list may hold the same
\* task more than once.
SortTask(i, p, ok) ==
    [id |-> i, valid |-> ok, has_priority |-> TRUE, priority |-> p,
     duration |-> 0, n_payloads |-> 0, n_types |-> 0, bandwidth |-> 0]

SortPool ==
    {SortTask(i, p, TRUE) : i \in 1..MaxSortIds, p \in 0..MaxSortPriority}
        \cup {SortTask(i, 0, FALSE) : i \in 1..MaxSortIds}

SortInputs == UNION {[1..n -> SortPool] : n \in 0..MaxSortLen}

\* The sort family at rest.
SortIdle ==
    /\ sort_tasks = <<>>
    /\ sort_pc = "idle"
    /\ task_weights = <<>>
    /\ sort_ret = <<>>

(***************************************************************************)
(* 6. AirportCapabilityRules.airport_open_check, update_airport_status     *)
(***************************************************************************)

\* Bound: the number of update_airport_status calls of a run.
MaxUpdates == 3

\* An Airport object: its id and, when it has the attribute, its is_open.
AirportObject(id, has_is_open, is_open) ==
    [id |-> id, has_is_open |-> has_is_open, is_open |-> is_open]

AirportEntities ==
    {AirportObject(a, FALSE, TRUE) : a \in Airports}
        \cup {AirportObject(a, TRUE, o) : a \in Airports, o \in BOOLEAN}

\* The resources dictionary as the status rules read it: whether the key
\* 'airport_status' is there, and the map under it.
StatusResources(has, map) == [has_airport_status |-> has, airport_status |-> map]

\* The resources argument of a check: the ledger, or None (the default).
NoResources == [is_none |-> TRUE]

\* The check with the ledger consulted before the object's attribute.
airport_open_check_ledger_first(airport, resources) ==
    IF resources # NoResources /\ resources.has_airport_status
       /\ airport.id \in DOMAIN resources.airport_status
    THEN resources.airport_status[airport.id]
    ELSE IF airport.has_is_open THEN airport.is_open ELSE TRUE

\* airport_open_check(airport, resources): the value returned (lines 26-45).
airport_open_check(airport, resources) ==
    IF airport.has_is_open THEN airport.is_open
    ELSE IF resources # NoResources /\ resources.has_airport_status
    THEN Get(resources.airport_status, airport.id, TRUE)
    ELSE TRUE

\* airport_open_check assigns to nothing: the airport and the resources
\* after the call.
airport_open_check_writes(airport, resources) ==
    [airport |-> airport, resources |-> resources]

\* update_airport_status(airport_id, is_open, resources): the resources
\* afterwards (lines 57-61).
update_airport_status(airport_id, is_open, resources) ==
    LET status == IF resources.has_airport_status THEN resources.airport_status
                  ELSE <<>>
    IN  StatusResources(TRUE,
            [a \in (DOMAIN status) \cup {airport_id} |->
                IF a = airport_id THEN is_open ELSE status[a]])

NoStatusCall == [op |-> "none"]

\* The ledgers a run starts from: no status map, an empty one, or one that
\* records airport 2 as closed.
StatusConfigs ==
    {StatusResources(FALSE, <<>>), StatusResources(TRUE, <<>>),
     StatusResources(TRUE, [a \in {2} |-> FALSE])}

\* The status family at rest.
StatusIdle ==
    /\ airport_status = StatusResources(FALSE, <<>>)
    /\ status_updates = <<>>
    /\ st_call = NoStatusCall

(***************************************************************************)
(* 7. The read-only rules: check_airport_q, effective_range_constraint,    *)
(*    and what each read-only rule writes                                  *)
(***************************************************************************)

\* Bound: the quota counts are 0..MaxQuota.
MaxQuota == 1

\* Lines 269-270: the type of a drone without the attribute ('unknown').
UnknownType == 0

\* Lines 394, 398: float('inf'), above every range of the model.
Infinity == 1000

\* The drones check_airport_q is asked about: of a type, or without one.
QuotaDrones ==
    {[has_type |-> FALSE, type |-> UnknownType]}
        \cup {[has_type |-> TRUE, type |-> t] : t \in DroneTypes}

\* The resources dictionary as check_airport_q reads it.
QuotaResources == [type_counts |-> type_counts, type_limits |-> type_limits]

\* check_airport_q(drone, task, resources): lines 268-276.
check_airport_q(drone, resources) ==
    LET drone_type == IF drone.has_type THEN drone.type ELSE UnknownType
        type_available == Min(Get(resources.type_counts, drone_type, 0),
                              Get(resources.type_limits, drone_type, 0))
    IN  IF type_available <= 0 THEN FALSE ELSE TRUE

\* The drones effective_range_constraint is asked about.
RangeDrones ==
    {[id |-> d, has_max_range |-> h, max_range |-> IF h THEN r ELSE 0] :
        d \in {1, 2}, h \in BOOLEAN, r \in {2}}

\* The resources dictionary as effective_range_constraint reads it.
MaintenanceResources(has, map) ==
    [has_maintenance_remaining |-> has, maintenance_remaining |-> map]

\* effective_range_constraint(drone, resources): lines 394-407.
effective_range_constraint(drone, resources) ==
    LET max_range == IF drone.has_max_range THEN drone.max_range ELSE Infinity
        remaining ==
            Get(IF resources.has_maintenance_remaining
                THEN resources.maintenance_remaining ELSE <<>>,
                drone.id, Infinity)
    IN  Min(max_range, remaining)

\* The whole ledger, the solution and the airports dictionary.
Ledger ==
    [status |-> airport_status,
     runway |-> RunwayResources,
     inventory |-> weapon_inventory,
     quota |-> QuotaResources,
     maintenance |-> maintenance_remaining,
     solution |-> [assignments |-> assignments, drone_info |-> drone_info],
     airports |-> airports]

\* check_airport_q with the quota consumed by the check.
check_airport_q_consuming(args, ledger) ==
    [args |-> args,
     ledger |-> [ledger EXCEPT !.quota.type_counts =
                    [t \in DOMAIN @ |-> IF t = args.drone.type /\ @[t] > 0
                                        THEN @[t] - 1 ELSE @[t]]]]

\* What each read-only rule assigns to: nothing.  The arguments and the
\* ledger after the call are those before it.
airport_open_check_effect(args, ledger) ==
    LET w == airport_open_check_writes(args.airport, ledger.status)
    IN  [args |-> [args EXCEPT !.airport = w.airport],
         ledger |-> [ledger EXCEPT !.status = w.resources]]

takeoff_runway_capacity_writes(args, ledger) == [args |-> args, ledger |-> ledger]

landing_runway_capacity_writes(args, ledger) == [args |-> args, ledger |-> ledger]

check_airport_q_writes(args, ledger) == [args |-> args, ledger |-> ledger]

check_airport_constraints_writes(args, ledger) == [args |-> args, ledger |-> ledger]

payload_capacity_writes(args, ledger) == [args |-> args, ledger |-> ledger]

effective_range_constraint_writes(args, ledger) == [args |-> args, ledger |-> ledger]

\* The value a read-only rule returns for its arguments on a ledger: a
\* verdict, or the range of effective_range_constraint.
ReadOnlyVerdict(op, args, ledger) ==
    CASE op = "airport_open_check" ->
             airport_open_check(args.airport, ledger.status)
      [] op = "takeoff_runway_capacity" ->
             takeoff_runway_capacity(args.drone, args.event_time, ledger.runway).result
      [] op = "landing_runway_capacity" ->
             landing_runway_capacity(args.drone, args.event_time, ledger.runway).result
      [] op = "check_airport_q" ->
             check_airport_q(args.drone, ledger.quota)
      [] op = "check_airport_constraints" ->
             check_airport_constraints(ledger.solution.assignments,
                 ledger.solution.drone_info, args.airport_id, args.drone_type,
                 ledger.airports, args.target_drone_key)
      [] op = "payload_capacity" ->
             payload_capacity(args.drone, args.task, ledger.inventory).result
      [] op = "effective_range_constraint" ->
             effective_range_constraint(args.drone, ledger.maintenance)

\* The arguments and the ledger after a call of a read-only rule.
ReadOnlyWrites(op, args, ledger) ==
    CASE op = "airport_open_check" -> airport_open_check_effect(args, ledger)
      [] op = "takeoff_runway_capacity" -> takeoff_runway_capacity_writes(args, ledger)
      [] op = "landing_runway_capacity" -> landing_runway_capacity_writes(args, ledger)
      [] op = "check_airport_q" -> check_airport_q_writes(args, ledger)
      [] op = "check_airport_constraints" -> check_airport_constraints_writes(args, ledger)
      [] op = "payload_capacity" -> payload_capacity_writes(args, ledger)
      [] op = "effective_range_constraint" -> effective_range_constraint_writes(args, ledger)

NoReadOnlyCall == [op |-> "none"]

\* The quota and maintenance ledgers at rest.
ReadOnlyIdle ==
    /\ type_counts = <<>>
    /\ type_limits = <<>>
    /\ maintenance_remaining = MaintenanceResources(FALSE, <<>>)
    /\ ro_call = NoReadOnlyCall
    /\ ro_again = NoReadOnlyCall

(***************************************************************************)
(* 8. GeographicalConstraintRules: line_of_sight_check, position_scoring,  *)
(*    threat_safety_check                                                  *)
(*                                                                         *)
(* The collaborators (base_functions, geopy) are oracles: a call says      *)
(* whether the module can be imported, which collaborator call raises, and *)
(* what the collaborators answer.  Scores are floats; the model holds them *)
(* exactly, as a count of 1/ScoreScale.                                    *)
(***************************************************************************)

ScoreScale == 2

\* Bound: the occupied positions of a call.
MaxOccupied == 2

\* float('-inf'), below every score of the model.
MinusInfinity == 0 - 100000000

\* How a call ends: it returns a value, or an exception reaches the caller.
Returned(value) == [kind |-> "return", value |-> value]

Raised == [kind |-> "raise"]

\* The collaborator calls of line_of_sight_check that may raise.
LosFailures ==
    {"none", "elevation", "project_position", "project_target", "line_of_sight"}

\* line_of_sight_check (lines 752-785): the import in its own try; the
\* elevation of a 2-D target resolved by geo_to_pixel_3d before the second
\* try (lines 761-763); the two projections and line_of_sight_3d inside it.
line_of_sight_check(import_ok, target_dims, raises_at, is_visible) ==
    IF ~import_ok THEN Returned(FALSE)
    ELSE IF target_dims = 2 /\ raises_at = "elevation" THEN Raised
    ELSE IF raises_at \in {"project_position", "project_target", "line_of_sight"}
    THEN Returned(FALSE)
    ELSE Returned(is_visible)

\* threat_safety_check (lines 882-895): the import in a try, the call of
\* is_safe_from_threats outside any try.
threat_safety_check(import_ok, oracle_raises, is_safe) ==
    IF ~import_ok THEN Returned(FALSE)
    ELSE IF oracle_raises THEN Raised
    ELSE Returned(is_safe)

\* Line 855 with the comparison closed.
within_heavy_band_closed(min_distance_to_occupied) == min_distance_to_occupied <= 5000

\* Line 855: min_distance_to_occupied < 5000
within_heavy_band(min_distance_to_occupied) == min_distance_to_occupied < 5000

\* Line 850: min_distance_to_occupied < 20000
within_ramp(min_distance_to_occupied) == min_distance_to_occupied < 20000

\* Lines 842-847: the least of the distances to the occupied positions.
RECURSIVE min_distance(_)
min_distance(distances) ==
    IF Len(distances) = 1 THEN distances[1]
    ELSE Min(distances[1], min_distance(Tail(distances)))

\* Lines 838-856: position_penalty.
position_penalty(occupied_distances) ==
    IF occupied_distances = <<>> THEN 0
    ELSE LET min_distance_to_occupied == min_distance(occupied_distances)
         IN  IF within_ramp(min_distance_to_occupied)
             THEN ((20000 - min_distance_to_occupied) * 50000 * ScoreScale) \div 20000
                  + (IF within_heavy_band(min_distance_to_occupied)
                     THEN 100000 * ScoreScale ELSE 0)
             ELSE 0

\* Lines 825-835: base_score, the coverage in hundredths.
base_score(distance_to_target, resources) ==
    IF resources.target_type = "area"
    THEN resources.coverage * 100 * ScoreScale
         + (50000 * ScoreScale) \div (1 + distance_to_target)
    ELSE (100000 * ScoreScale) \div (1 + distance_to_target)

\* position_scoring (lines 808-866): the import in a try, geodesic called
\* outside any try for the target (line 823) and for each occupied position
\* (line 846).  The distances are what geodesic answers.
position_scoring(import_ok, raises_at, distance_to_target, resources) ==
    IF ~import_ok THEN Returned(MinusInfinity)
    ELSE IF raises_at = "target" THEN Raised
    ELSE IF raises_at = "occupied" /\ resources.occupied_distances # <<>> THEN Raised
    ELSE [kind |-> "return",
          value |-> base_score(distance_to_target, resources)
                    - position_penalty(resources.occupied_distances),
          base_score |-> base_score(distance_to_target, resources),
          position_penalty |-> position_penalty(resources.occupied_distances)]

\* The distances to the target: 1 + d divides the scores' numerators.
TargetDistances == {0, 99, 9999}

\* The distances to occupied positions: at and on both sides of the bands'
\* edges.
OccupiedDistances == {0, 4999, 5000, 5001, 19999, 20000, 20001, 30000}

ScoringResources ==
    {[target_type |-> t, coverage |-> c, occupied_distances |-> occ] :
        t \in {"point"}, c \in {0},
        occ \in UNION {[1..n -> OccupiedDistances] : n \in 0..MaxOccupied}}
    \cup {[target_type |-> t, coverage |-> c, occupied_distances |-> occ] :
        t \in {"area"}, c \in {0, 50, 100},
        occ \in UNION {[1..n -> OccupiedDistances] : n \in 0..1}}

NoGeoCall == [op |-> "none"]

\* The geographic family at rest.
GeoIdle == geo_call = NoGeoCall

(***************************************************************************)
(* 9. EfficiencyOptimizationRules: total_distance_minimization,            *)
(*    completion_time_minimization                                         *)
(***************************************************************************)

\* Bounds: the drone keys of a solution, the ranges and clocks of a replay.
MaxEffDrones == 2

MaxReplay == 2

EffDrones == 1..MaxEffDrones

\* A solution object: whether it has the attribute assignments and, per
\* drone key of the mapping, whether the task list is non-empty; whether it
\* has the attribute metrics, and the mapping.
Solution(has_assignments, assigned, has_metrics, metrics) ==
    [has_assignments |-> has_assignments, assignments |-> assigned,
     has_metrics |-> has_metrics, metrics |-> metrics]

\* SolutionChecker().calculate_complete_route for a drone key: it raises
\* (or solution_checker cannot be imported), or returns a final clock and a
\* cumulative range.
ReplayOutcomes ==
    {[raises |-> TRUE, final_time |-> 0, total_range |-> 0]}
        \cup {[raises |-> FALSE, final_time |-> t, total_range |-> r] :
                 t \in 1..MaxReplay, r \in 1..MaxReplay}

\* dict[key] = value
SetItem(dict, key, value) ==
    [k \in (DOMAIN dict) \cup {key} |-> IF k = key THEN value ELSE dict[k]]

\* Lines 914-930: the loop over solution.assignments.items(), summing.
RECURSIVE sum_total_range(_, _, _)
sum_total_range(keys, assigned, replay) ==
    IF keys = {} THEN 0
    ELSE LET drone_key == CHOOSE k \in keys : TRUE
         IN  (IF assigned[drone_key] /\ ~replay[drone_key].raises
              THEN replay[drone_key].total_range ELSE 0)
             + sum_total_range(keys \ {drone_key}, assigned, replay)

\* Lines 953-969: the loop over solution.assignments.items(), taking the maximum.
RECURSIVE max_completion_time(_, _, _)
max_completion_time(keys, assigned, replay) ==
    IF keys = {} THEN 0
    ELSE LET drone_key == CHOOSE k \in keys : TRUE
         IN  Max(IF assigned[drone_key] /\ ~replay[drone_key].raises
                 THEN replay[drone_key].final_time ELSE 0,
                 max_completion_time(keys \ {drone_key}, assigned, replay))

\* total_distance_minimization(solution): how the call ends and the solution
\* afterwards.  Without assignments, line 911 assigns into solution.metrics,
\* which raises AttributeError when the solution has no metrics either.
total_distance_minimization(solution, replay) ==
    IF ~solution.has_assignments
    THEN IF solution.has_metrics
         THEN [kind |-> "return",
               solution |-> [solution EXCEPT
                   !.metrics = SetItem(solution.metrics, "total_distance", 0)]]
         ELSE [kind |-> "raise", solution |-> solution]
    ELSE [kind |-> "return",
          solution |-> [solution EXCEPT
              !.has_metrics = TRUE,
              !.metrics = SetItem(IF solution.has_metrics THEN solution.metrics ELSE <<>>,
                                  "total_distance",
                                  sum_total_range(DOMAIN solution.assignments,
                                                  solution.assignments, replay))]]

\* completion_time_minimization(solution): lines 945-951 create the metrics
\* mapping when the solution has none.
completion_time_minimization(solution, replay) ==
    IF ~solution.has_assignments
    THEN [kind |-> "return",
          solution |-> [solution EXCEPT
              !.has_metrics = TRUE,
              !.metrics = SetItem(IF solution.has_metrics THEN solution.metrics ELSE <<>>,
                                  "completion_time", 0)]]
    ELSE [kind |-> "return",
          solution |-> [solution EXCEPT
              !.has_metrics = TRUE,
              !.metrics = SetItem(IF solution.has_metrics THEN solution.metrics ELSE <<>>,
                                  "completion_time",
                                  max_completion_time(DOMAIN solution.assignments,
                                                      solution.assignments, replay))]]

\* The solutions: without assignments, or with a mapping from some drone
\* keys to an empty or a non-empty task list; with or without metrics.
EffSolutions ==
    {Solution(FALSE, <<>>, hm, <<>>) : hm \in BOOLEAN}
        \cup {Solution(TRUE, assigned, hm, <<>>) :
                 assigned \in PartialFns(EffDrones, BOOLEAN), hm \in BOOLEAN}

NoEffCall == [op |-> "none"]

\* The efficiency family at rest.
EfficiencyIdle ==
    /\ eff_solution = Solution(FALSE, <<>>, FALSE, <<>>)
    /\ eff_replay = <<>>
    /\ eff_call = NoEffCall

(***************************************************************************)
(* 10. TaskCharacteristicRules.time_window_constraint                      *)
(*                                                                         *)
(* travel_time = distance / drone_speed is a float; the model holds every  *)
(* time exactly, as a count of 1/drone_speed seconds.                      *)
(***************************************************************************)

\* Bound: the speeds are -1..MaxSpeed.
MaxSpeed == 2

\* Line 428 without the max: the takeoff at the optimal time, even a negative one.
actual_takeoff_unclamped(optimal_takeoff) == optimal_takeoff

\* Line 428: actual_takeoff = max(0.0, optimal_takeoff)
actual_takeoff(optimal_takeoff) == Max(0, optimal_takeoff)

\* time_window_constraint(drone, task, distance): lines 417-447.  Every time
\* is carried as a whole number of 1/drone_speed seconds, so that
\* travel_time = distance / drone_speed (line 423) is exactly distance and the
\* task's times are multiplied by drone_speed.  A task without end_time has
\* the end float('inf'), which no time exceeds.
time_window_constraint(drone, task, distance) ==
    LET drone_speed == IF drone.has_speed THEN drone.speed ELSE 0
    IN  IF drone_speed <= 0 THEN FALSE
        ELSE LET travel_time == distance
                 task_start == task.start_time * drone_speed
                 optimal_takeoff == task_start - travel_time
                 earliest_arrival == actual_takeoff(optimal_takeoff) + travel_time
                 actual_start == Max(earliest_arrival, task_start)
             IN  IF task.has_end_time /\ earliest_arrival > task.end_time * drone_speed
                 THEN FALSE
                 ELSE IF task.has_end_time
                         /\ actual_start + task.duration * drone_speed
                                > task.end_time * drone_speed
                 THEN FALSE
                 ELSE TRUE

\* The drones: without a speed, or with a speed from -1 to MaxSpeed.
TimeWindowDrones ==
    {[has_speed |-> FALSE, speed |-> 0]}
        \cup {[has_speed |-> TRUE, speed |-> v] : v \in (0 - 1)..MaxSpeed}

\* The tasks: windows that start at 0 or 100 and end at 100, 150 or 200 or
\* have no end, durations 0, 50 and 100.
TimeWindowTasks ==
    {[start_time |-> s, has_end_time |-> he, end_time |-> IF he THEN e ELSE 0,
      duration |-> d] :
        s \in {0, 100}, he \in BOOLEAN, e \in {100, 150, 200}, d \in {0, 50, 100}}

\* The distances to fly.
TimeWindowDistances == {0, 30, 60, 101, 150, 250}

NoTimeWindowCall == [op |-> "none"]

\* The time window family at rest.
TimeWindowIdle == tw_call = NoTimeWindowCall

(***************************************************************************)
(* Specifications: one per rule family; the other families stay at rest.   *)
(***************************************************************************)

not_runway_vars == <<seq_vars, payload_vars, workload_vars, weight_vars, sort_vars, status_vars, readonly_vars, geo_vars, eff_vars, tw_vars>>

OthersIdleRunway == SeqIdle /\ PayloadIdle /\ WorkloadIdle /\ WeightIdle /\ SortIdle /\ StatusIdle /\ ReadOnlyIdle /\ GeoIdle /\ EfficiencyIdle /\ TimeWindowIdle

\* The ledger configurations the runs start from.  Airport 1 has no configured
\* runway count (the default applies), airport 2 has MaxRunways runways; the
\* two durations are both left to their defaults or both configured.
RunwayCountConfig == [a \in {2} |-> MaxRunways]

DurationConfigs == {<<Absent, Absent>>, <<MaxDur, 1>>}

InitRunway ==
    /\ runway_counts = RunwayCountConfig
    /\ \E c \in DurationConfigs : takeoff_duration = c[1] /\ landing_duration = c[2]
    /\ runway_occupancy = <<>>
    /\ rw_call = NoCall
    /\ OthersIdleRunway

\* The number of tuples recorded so far, over all airports.
RecordedTotal ==
    LET RECURSIVE Sum(_)
        Sum(S) == IF S = {} THEN 0
                  ELSE LET a == CHOOSE x \in S : TRUE
                       IN  Len(runway_occupancy[a]) + Sum(S \ {a})
    IN  Sum(DOMAIN runway_occupancy)

\* The event type the recording caller passes: in these runs the events of
\* airport 1 are takeoffs and those of airport 2 landings (no rule reads it).
EventTypeAt(airport_id) == IF airport_id = 1 THEN "takeoff" ELSE "landing"

TakeoffCheck ==
    \E drone \in Drones, event_time \in 0..MaxTime :
        /\ rw_call' = [op |-> "takeoff_runway_capacity", drone |-> drone,
                       event_time |-> event_time,
                       ret |-> takeoff_runway_capacity(drone, event_time, RunwayResources)]
        /\ UNCHANGED <<runway_counts, takeoff_duration, landing_duration,
                       runway_occupancy>>
        /\ UNCHANGED not_runway_vars

LandingCheck ==
    \E drone \in Drones, event_time \in 0..MaxTime :
        /\ rw_call' = [op |-> "landing_runway_capacity", drone |-> drone,
                       event_time |-> event_time,
                       ret |-> landing_runway_capacity(drone, event_time, RunwayResources)]
        /\ UNCHANGED <<runway_counts, takeoff_duration, landing_duration,
                       runway_occupancy>>
        /\ UNCHANGED not_runway_vars

UpdateRunwayOccupancy ==
    \E airport_id \in Airports, event_time \in 0..MaxTime, event_duration \in 1..MaxDur :
        /\ RecordedTotal < MaxOcc
        /\ runway_occupancy' =
               update_runway_occupancy(airport_id, event_time, event_duration,
                                       airport_id, EventTypeAt(airport_id),
                                       runway_occupancy)
        /\ rw_call' = [op |-> "update_runway_occupancy", airport_id |-> airport_id,
                       event_time |-> event_time, event_duration |-> event_duration,
                       drone_id |-> airport_id, event_type |-> EventTypeAt(airport_id),
                       before |-> RunwayResources]
        /\ UNCHANGED <<runway_counts, takeoff_duration, landing_duration>>
        /\ UNCHANGED not_runway_vars

NextRunway == TakeoffCheck \/ LandingCheck \/ UpdateRunwayOccupancy

SpecRunway == InitRunway /\ [][NextRunway]_vars

not_seq_vars == <<runway_vars, payload_vars, workload_vars, weight_vars, sort_vars, status_vars, readonly_vars, geo_vars, eff_vars, tw_vars>>

OthersIdleSeq == RunwayIdle /\ PayloadIdle /\ WorkloadIdle /\ WeightIdle /\ SortIdle /\ StatusIdle /\ ReadOnlyIdle /\ GeoIdle /\ EfficiencyIdle /\ TimeWindowIdle

\* All sequences over S of length at most n.
SeqsUpTo(S, n) == UNION {[1..k -> S] : k \in 0..n}

\* A call: any list of task ids (repeats allowed), any task dictionary.
InitSeq ==
    /\ task_ids \in SeqsUpTo(TaskIds, MaxSeqLen)
    /\ task_dict \in SUBSET TaskIds
    /\ seq_pc = "import"
    /\ seq_i = 0
    /\ results = <<>>
    /\ current_time = 0
    /\ legs = 0
    /\ evaluated = {}
    /\ first_fail = 0
    /\ OthersIdleSeq

\* Lines 480-490: the import fails and every id gets the same message.
ImportFails ==
    /\ seq_pc = "import"
    /\ results' = mark_no_module(<<>>, task_ids, 1)
    /\ seq_pc' = "no_module"
    /\ UNCHANGED <<task_ids, task_dict, seq_i, current_time, legs, evaluated, first_fail>>
    /\ UNCHANGED not_seq_vars

\* Lines 480-496: the import succeeds; an empty list returns the empty map.
ImportOk ==
    /\ seq_pc = "import"
    /\ results' = <<>>
    /\ seq_pc' = IF task_ids = <<>> THEN "done" ELSE "takeoff"
    /\ UNCHANGED <<task_ids, task_dict, seq_i, current_time, legs, evaluated, first_fail>>
    /\ UNCHANGED not_seq_vars

\* Lines 499-511: the optimal takeoff time, 0.0 when the collaborator raises;
\* the drone state starts at the home airport with range 0.
InitialState ==
    /\ seq_pc = "takeoff"
    /\ \E raised \in BOOLEAN, optimal_takeoff \in 0..MaxClock :
           current_time' = IF raised THEN 0 ELSE optimal_takeoff
    /\ legs' = 0
    /\ seq_i' = 1
    /\ seq_pc' = "loop"
    /\ UNCHANGED <<task_ids, task_dict, results, evaluated, first_fail>>
    /\ UNCHANGED not_seq_vars

\* Lines 514-521: task_dict.get(task_id) finds nothing.
TaskUnknown ==
    /\ seq_pc = "loop"
    /\ seq_i <= Len(task_ids)
    /\ task_ids[seq_i] \notin task_dict
    /\ results' = mark_cascade(SetResult(results, task_ids[seq_i], TaskMissing),
                               task_ids, seq_i + 1)
    /\ first_fail' = seq_i
    /\ seq_pc' = "done"
    /\ UNCHANGED <<task_ids, task_dict, seq_i, current_time, legs, evaluated>>
    /\ UNCHANGED not_seq_vars

\* Lines 523-539: the feasibility check of the task returns "可行", returns a
\* reason, or raises.
CheckTask ==
    /\ seq_pc = "loop"
    /\ seq_i <= Len(task_ids)
    /\ task_ids[seq_i] \in task_dict
    /\ evaluated' = evaluated \cup {seq_i}
    /\ \E status \in {Feasible, Infeasible, CheckFailed} :
           IF status # Feasible
           THEN /\ results' = mark_cascade(SetResult(results, task_ids[seq_i], status),
                                           task_ids, seq_i + 1)
                /\ first_fail' = seq_i
                /\ seq_pc' = "done"
           ELSE /\ results' = SetResult(results, task_ids[seq_i], status)
                /\ first_fail' = first_fail
                /\ seq_pc' = "advance"
    /\ UNCHANGED <<task_ids, task_dict, seq_i, current_time, legs>>
    /\ UNCHANGED not_seq_vars

\* Lines 541-548: the leg is simulated and the payload consumed; the loop goes
\* on with the next task and returns after the last.
AdvanceOk ==
    /\ seq_pc = "advance"
    /\ \E new_time \in current_time..MaxClock : current_time' = new_time
    /\ legs' = legs + 1
    /\ seq_i' = seq_i + 1
    /\ seq_pc' = IF seq_i = Len(task_ids) THEN "done" ELSE "loop"
    /\ UNCHANGED <<task_ids, task_dict, results, evaluated, first_fail>>
    /\ UNCHANGED not_seq_vars

\* Lines 549-552: _simulate_task_execution or _consume_task_payload raises:
\* the task's entry becomes the execution failure, and the loop breaks.
AdvanceRaises ==
    /\ seq_pc = "advance"
    /\ results' = SetResult(results, task_ids[seq_i], ExecFailed)
    /\ first_fail' = seq_i
    /\ seq_pc' = "done"
    /\ UNCHANGED <<task_ids, task_dict, seq_i, current_time, legs, evaluated>>
    /\ UNCHANGED not_seq_vars

NextSeq ==
    \/ ImportFails
    \/ ImportOk
    \/ InitialState
    \/ TaskUnknown
    \/ CheckTask
    \/ AdvanceOk
    \/ AdvanceRaises

SpecSequence == InitSeq /\ [][NextSeq]_vars

not_payload_vars == <<runway_vars, seq_vars, workload_vars, weight_vars, sort_vars, status_vars, readonly_vars, geo_vars, eff_vars, tw_vars>>

InitPayload ==
    /\ weapon_inventory \in Inventories
    /\ pl_call = NoPayloadCall
    /\ RunwayIdle /\ SeqIdle /\ WorkloadIdle /\ WeightIdle /\ SortIdle /\ StatusIdle /\ ReadOnlyIdle /\ GeoIdle /\ EfficiencyIdle /\ TimeWindowIdle

\* The rule is called for a drone and a task (the calls are synchronous: the
\* caller has taken the previous verdict).
PayloadCapacity ==
    \E drone \in PayloadDrones, task \in PayloadTasks :
        /\ pl_call = NoPayloadCall
        /\ pl_call' = [op |-> "payload_capacity", drone |-> drone, task |-> task,
                       ret |-> payload_capacity(drone, task, weapon_inventory).result,
                       inspected |-> payload_capacity(drone, task, weapon_inventory).inspected,
                       msg |-> payload_capacity(drone, task, weapon_inventory).msg]
        /\ UNCHANGED weapon_inventory
        /\ UNCHANGED not_payload_vars

\* The solver changes the inventory between calls (the rule only reads it).
InventoryChange ==
    /\ weapon_inventory' \in Inventories \ {weapon_inventory}
    /\ pl_call' = NoPayloadCall
    /\ UNCHANGED not_payload_vars

\* The caller takes the verdict.
PayloadReturn ==
    /\ pl_call # NoPayloadCall
    /\ pl_call' = NoPayloadCall
    /\ UNCHANGED weapon_inventory
    /\ UNCHANGED not_payload_vars

NextPayload == PayloadCapacity \/ PayloadReturn \/ InventoryChange

SpecPayload == InitPayload /\ [][NextPayload]_vars

not_workload_vars == <<runway_vars, seq_vars, payload_vars, weight_vars, sort_vars, status_vars, readonly_vars, geo_vars, eff_vars, tw_vars>>

\* An empty solution; both airports carry the same limits.
InitWorkload ==
    /\ assignments = <<>>
    /\ drone_info \in DroneInfos
    /\ \E obj \in AirportObjects : airports = [a \in WorkloadAirports |-> obj]
    /\ wl_call = NoWorkloadCall
    /\ RunwayIdle /\ SeqIdle /\ PayloadIdle /\ WeightIdle /\ SortIdle /\ StatusIdle /\ ReadOnlyIdle /\ GeoIdle /\ EfficiencyIdle /\ TimeWindowIdle

\* The solver gives a drone an entry with an empty task list.
SolverAddDrone ==
    \E key \in DroneKeys \ DOMAIN assignments :
        /\ assignments' = [k \in (DOMAIN assignments) \cup {key} |->
                              IF k = key THEN <<>> ELSE assignments[k]]
        /\ wl_call' = NoWorkloadCall
        /\ UNCHANGED <<drone_info, airports>>
        /\ UNCHANGED not_workload_vars

\* The solver assigns a task to a drone, checked or not (the rule reads only
\* whether a list is empty, so one task per list is all the model keeps).
SolverAssign ==
    \E key \in DroneKeys :
        /\ has_no_tasks(assignments, key)
        /\ assignments' = [k \in (DOMAIN assignments) \cup {key} |->
                              IF k = key THEN <<1>> ELSE assignments[k]]
        /\ wl_call' = NoWorkloadCall
        /\ UNCHANGED <<drone_info, airports>>
        /\ UNCHANGED not_workload_vars

\* The solver takes a drone's task back.
SolverUnassign ==
    \E key \in DOMAIN assignments :
        /\ assignments[key] # <<>>
        /\ assignments' = [assignments EXCEPT ![key] = <<>>]
        /\ wl_call' = NoWorkloadCall
        /\ UNCHANGED <<drone_info, airports>>
        /\ UNCHANGED not_workload_vars

\* The rule is called for an airport and a target drone, with the target's type.
CheckAirportConstraints ==
    \E airport_id \in WorkloadAirports, target \in DroneKeys :
        /\ wl_call = NoWorkloadCall
        /\ wl_call' = [op |-> "check_airport_constraints", airport_id |-> airport_id,
                       drone_type |-> drone_info[target], target_drone_key |-> target,
                       ret |-> check_airport_constraints(assignments, drone_info,
                                   airport_id, drone_info[target], airports, target)]
        /\ UNCHANGED <<assignments, drone_info, airports>>
        /\ UNCHANGED not_workload_vars

\* The caller takes the verdict.
WorkloadReturn ==
    /\ wl_call # NoWorkloadCall
    /\ wl_call' = NoWorkloadCall
    /\ UNCHANGED <<assignments, drone_info, airports>>
    /\ UNCHANGED not_workload_vars

NextWorkload ==
    \/ SolverAddDrone
    \/ SolverAssign
    \/ SolverUnassign
    \/ CheckAirportConstraints
    \/ WorkloadReturn

SpecWorkload == InitWorkload /\ [][NextWorkload]_vars

not_weight_vars == <<runway_vars, seq_vars, payload_vars, workload_vars, sort_vars, status_vars, readonly_vars, geo_vars, eff_vars, tw_vars>>

InitWeight ==
    /\ wt_call = NoWeightCall
    /\ RunwayIdle /\ SeqIdle /\ PayloadIdle /\ WorkloadIdle /\ SortIdle /\ StatusIdle /\ ReadOnlyIdle /\ GeoIdle /\ EfficiencyIdle /\ TimeWindowIdle

CalculateTaskWeight ==
    \E task \in WeightTasks :
        /\ wt_call = NoWeightCall
        /\ wt_call' = [op |-> "calculate_task_weight", task |-> task,
                       ret |-> calculate_task_weight(task)]
        /\ UNCHANGED not_weight_vars

\* The caller takes the weight.
WeightReturn ==
    /\ wt_call # NoWeightCall
    /\ wt_call' = NoWeightCall
    /\ UNCHANGED not_weight_vars

NextWeight == CalculateTaskWeight \/ WeightReturn

SpecWeight == InitWeight /\ [][NextWeight]_vars

not_sort_vars == <<runway_vars, seq_vars, payload_vars, workload_vars, weight_vars, status_vars, readonly_vars, geo_vars, eff_vars, tw_vars>>

InitSort ==
    /\ sort_tasks \in SortInputs
    /\ sort_pc = "weigh"
    /\ task_weights = <<>>
    /\ sort_ret = <<>>
    /\ RunwayIdle /\ SeqIdle /\ PayloadIdle /\ WorkloadIdle /\ WeightIdle /\ StatusIdle /\ ReadOnlyIdle /\ GeoIdle /\ EfficiencyIdle /\ TimeWindowIdle

\* Lines 644-650: one turn of the loop: the next task's weight is computed, or
\* 0.0 taken when that raises, and the pair appended.
SortWeigh ==
    /\ sort_pc = "weigh"
    /\ Len(task_weights) < Len(sort_tasks)
    /\ LET task == sort_tasks[Len(task_weights) + 1]
       IN  task_weights' = Append(task_weights, <<sort_key(task), task>>)
    /\ UNCHANGED <<sort_tasks, sort_pc, sort_ret>>
    /\ UNCHANGED not_sort_vars

\* Lines 653-665: the pairs are sorted and the tasks returned.
SortAndReturn ==
    /\ sort_pc = "weigh"
    /\ Len(task_weights) = Len(sort_tasks)
    /\ task_weights' = sort_descending(task_weights)
    /\ sort_ret' = [k \in 1..Len(task_weights) |-> sort_descending(task_weights)[k][2]]
    /\ sort_pc' = "done"
    /\ UNCHANGED sort_tasks
    /\ UNCHANGED not_sort_vars

NextSort == SortWeigh \/ SortAndReturn

SpecSort == InitSort /\ [][NextSort]_vars

not_status_vars == <<runway_vars, seq_vars, payload_vars, workload_vars, weight_vars, sort_vars, readonly_vars, geo_vars, eff_vars, tw_vars>>

InitStatus ==
    /\ airport_status \in StatusConfigs
    /\ status_updates = <<>>
    /\ st_call = NoStatusCall
    /\ RunwayIdle /\ SeqIdle /\ PayloadIdle /\ WorkloadIdle /\ WeightIdle /\ SortIdle /\ ReadOnlyIdle /\ GeoIdle /\ EfficiencyIdle /\ TimeWindowIdle

\* A call airport_open_check(airport) or airport_open_check(airport, resources).
AirportOpenCheck ==
    \E airport \in AirportEntities, resources \in {NoResources, airport_status} :
        /\ st_call' = [op |-> "airport_open_check", airport |-> airport,
                       resources |-> resources,
                       ret |-> airport_open_check(airport, resources),
                       airport_after |->
                           airport_open_check_writes(airport, resources).airport]
        /\ airport_status' =
               IF resources = NoResources THEN airport_status
               ELSE airport_open_check_writes(airport, resources).resources
        /\ UNCHANGED status_updates
        /\ UNCHANGED not_status_vars

UpdateAirportStatus ==
    \E airport_id \in Airports, is_open \in BOOLEAN :
        /\ Len(status_updates) < MaxUpdates
        /\ airport_status' = update_airport_status(airport_id, is_open, airport_status)
        /\ status_updates' = Append(status_updates, <<airport_id, is_open>>)
        /\ st_call' = [op |-> "update_airport_status", airport_id |-> airport_id,
                       is_open |-> is_open]
        /\ UNCHANGED not_status_vars

NextStatus == AirportOpenCheck \/ UpdateAirportStatus

SpecStatus == InitStatus /\ [][NextStatus]_vars

not_readonly_vars == <<rw_call, pl_call, wl_call, st_call, status_updates, seq_vars, weight_vars, sort_vars, geo_vars, eff_vars, tw_vars>>

\* The solution and airports of these runs: one or two drones of airport 1
\* busy, every airport limited to two drones in all and two of each type.
ReadOnlyAssignments ==
    {[key \in {DroneKey(1, 1)} |-> <<1>>],
     [key \in {DroneKey(1, 1), DroneKey(1, 2)} |-> <<1>>]}

ReadOnlyAirports ==
    [a \in WorkloadAirports |->
        [has_total_limits |-> TRUE, total_limits |-> 2,
         has_type_limits |-> TRUE, type_limits |-> [t \in DroneTypes |-> 2]]]

InitReadOnly ==
    /\ airport_status = StatusResources(FALSE, <<>>)
    /\ runway_counts = RunwayCountConfig
    /\ takeoff_duration = MaxDur
    /\ landing_duration = 1
    /\ runway_occupancy = <<>>
    /\ weapon_inventory = [has_weapon_inventory |-> TRUE,
                           weapon_inventory |-> [k \in {StrikeKind} |-> MaxVal]]
    /\ type_counts = [t \in {TypeA} |-> MaxQuota]
    /\ type_limits = [t \in DroneTypes |-> 1]
    /\ maintenance_remaining \in
           {MaintenanceResources(FALSE, <<>>),
            MaintenanceResources(TRUE, [d \in {1} |-> 1])}
    /\ assignments \in ReadOnlyAssignments
    /\ drone_info = [key \in DroneKeys |-> TypeA]
    /\ airports = ReadOnlyAirports
    /\ ro_call = NoReadOnlyCall
    /\ ro_again = NoReadOnlyCall
    /\ rw_call = NoCall /\ pl_call = NoPayloadCall /\ wl_call = NoWorkloadCall
    /\ st_call = NoStatusCall /\ status_updates = <<>>
    /\ SeqIdle /\ WeightIdle /\ SortIdle /\ GeoIdle /\ EfficiencyIdle /\ TimeWindowIdle

\* The ledger variables take the values of a ledger record.
SetLedger(ledger) ==
    /\ airport_status' = ledger.status
    /\ runway_counts' = ledger.runway.runway_counts
    /\ takeoff_duration' = ledger.runway.takeoff_duration
    /\ landing_duration' = ledger.runway.landing_duration
    /\ runway_occupancy' = ledger.runway.runway_occupancy
    /\ weapon_inventory' = ledger.inventory
    /\ type_counts' = ledger.quota.type_counts
    /\ type_limits' = ledger.quota.type_limits
    /\ maintenance_remaining' = ledger.maintenance
    /\ assignments' = ledger.solution.assignments
    /\ drone_info' = ledger.solution.drone_info
    /\ airports' = ledger.airports

\* A first call of a read-only rule: its return value is recorded, and the
\* arguments and the ledger become what the rule left.
ReadOnlyCall(op, args) ==
    /\ ro_call' = [op |-> op, given |-> args, before |-> Ledger,
                   args |-> ReadOnlyWrites(op, args, Ledger).args,
                   ret |-> ReadOnlyVerdict(op, args, Ledger)]
    /\ SetLedger(ReadOnlyWrites(op, args, Ledger).ledger)
    /\ UNCHANGED ro_again
    /\ UNCHANGED not_readonly_vars

CallAirportOpenCheck ==
    \E airport \in AirportEntities :
        /\ ro_call = NoReadOnlyCall
        /\ ReadOnlyCall("airport_open_check", [airport |-> airport])

CallTakeoffRunwayCapacity ==
    \E drone \in Drones, event_time \in 0..MaxTime :
        /\ ro_call = NoReadOnlyCall
        /\ ReadOnlyCall("takeoff_runway_capacity", [drone |-> drone, event_time |-> event_time])

CallLandingRunwayCapacity ==
    \E drone \in Drones, event_time \in 0..MaxTime :
        /\ ro_call = NoReadOnlyCall
        /\ ReadOnlyCall("landing_runway_capacity", [drone |-> drone, event_time |-> event_time])

CallCheckAirportQ ==
    \E drone \in QuotaDrones :
        /\ ro_call = NoReadOnlyCall
        /\ ReadOnlyCall("check_airport_q", [drone |-> drone])

CallCheckAirportConstraints ==
    \E airport_id \in WorkloadAirports, drone_type \in DroneTypes, key \in DroneKeys :
        /\ ro_call = NoReadOnlyCall
        /\ ReadOnlyCall("check_airport_constraints",
                        [airport_id |-> airport_id, drone_type |-> drone_type,
                         target_drone_key |-> key])

\* A drone with a strike capability of MaxVal, asked about a task that needs
\* none, one that needs MaxVal strikes, and one that needs a sensor.
CallPayloadCapacity ==
    \E kind \in PayloadKinds, has \in BOOLEAN :
        /\ ro_call = NoReadOnlyCall
        /\ ReadOnlyCall("payload_capacity",
               [drone |-> [has_payload_capability |-> TRUE,
                           payload_capability |->
                               [k \in {StrikeKind} |-> <<MaxVal, MaxVal>>]],
                task |-> [has_required_payloads |-> has,
                          required_payloads |->
                              IF has THEN <<<<kind, <<MaxVal, MaxVal>>>>>> ELSE <<>>]])

CallEffectiveRangeConstraint ==
    \E drone \in RangeDrones :
        /\ ro_call = NoReadOnlyCall
        /\ ReadOnlyCall("effective_range_constraint", [drone |-> drone])

\* The same rule is called again with the same arguments.
CallAgain ==
    /\ ro_call # NoReadOnlyCall
    /\ ro_again = NoReadOnlyCall
    /\ ro_again' = [op |-> ro_call.op,
                    ret |-> ReadOnlyVerdict(ro_call.op, ro_call.args, Ledger)]
    /\ SetLedger(ReadOnlyWrites(ro_call.op, ro_call.args, Ledger).ledger)
    /\ UNCHANGED ro_call
    /\ UNCHANGED not_readonly_vars

\* The caller is done with the call.
ReadOnlyReturn ==
    /\ ro_again # NoReadOnlyCall
    /\ ro_call' = NoReadOnlyCall
    /\ ro_again' = NoReadOnlyCall
    /\ UNCHANGED <<airport_status, runway_counts, takeoff_duration, landing_duration,
                   runway_occupancy, weapon_inventory, type_counts, type_limits,
                   maintenance_remaining, assignments, drone_info, airports>>
    /\ UNCHANGED not_readonly_vars

\* The mutations between calls: a status update, an occupancy record, and
\* the solver taking a drone of a type or a strike weapon.
MutateStatus ==
    \E is_open \in BOOLEAN :
        /\ ro_call = NoReadOnlyCall
        /\ airport_status' = update_airport_status(1, is_open, airport_status)
        /\ UNCHANGED <<runway_counts, takeoff_duration, landing_duration,
                       runway_occupancy, weapon_inventory, type_counts, type_limits,
                       maintenance_remaining, assignments, drone_info, airports,
                       ro_call, ro_again>>
        /\ UNCHANGED not_readonly_vars

MutateOccupancy ==
    \E event_time \in 0..1 :
        /\ ro_call = NoReadOnlyCall
        /\ RecordedTotal < 1
        /\ runway_occupancy' =
               update_runway_occupancy(1, event_time, 1, 1, "takeoff", runway_occupancy)
        /\ UNCHANGED <<airport_status, runway_counts, takeoff_duration, landing_duration,
                       weapon_inventory, type_counts, type_limits,
                       maintenance_remaining, assignments, drone_info, airports,
                       ro_call, ro_again>>
        /\ UNCHANGED not_readonly_vars

QuotaChange ==
    /\ ro_call = NoReadOnlyCall
    /\ type_counts[TypeA] > 0
    /\ type_counts' = [type_counts EXCEPT ![TypeA] = @ - 1]
    /\ UNCHANGED <<airport_status, runway_counts, takeoff_duration, landing_duration,
                   runway_occupancy, weapon_inventory, type_limits,
                   maintenance_remaining, assignments, drone_info, airports,
                   ro_call, ro_again>>
    /\ UNCHANGED not_readonly_vars

WeaponTaken ==
    /\ ro_call = NoReadOnlyCall
    /\ weapon_inventory.weapon_inventory[StrikeKind] > 0
    /\ weapon_inventory' =
           [weapon_inventory EXCEPT !.weapon_inventory[StrikeKind] = @ - 1]
    /\ UNCHANGED <<airport_status, runway_counts, takeoff_duration, landing_duration,
                   runway_occupancy, type_counts, type_limits,
                   maintenance_remaining, assignments, drone_info, airports,
                   ro_call, ro_again>>
    /\ UNCHANGED not_readonly_vars

NextReadOnly ==
    \/ CallAirportOpenCheck
    \/ CallTakeoffRunwayCapacity
    \/ CallLandingRunwayCapacity
    \/ CallCheckAirportQ
    \/ CallCheckAirportConstraints
    \/ CallPayloadCapacity
    \/ CallEffectiveRangeConstraint
    \/ CallAgain
    \/ ReadOnlyReturn
    \/ MutateStatus
    \/ MutateOccupancy
    \/ QuotaChange
    \/ WeaponTaken

SpecReadOnly == InitReadOnly /\ [][NextReadOnly]_vars

\* Bound: the events recorded in a run of the check-then-record discipline.
MaxRecorded == 3

\* The caller's discipline: an event is recorded only right after the check
\* for the same airport, time and duration returned True, check and record
\* together in one step.  The list starts empty.
InitDiscipline ==
    /\ runway_counts = RunwayCountConfig
    /\ \E c \in DurationConfigs : takeoff_duration = c[1] /\ landing_duration = c[2]
    /\ runway_occupancy = <<>>
    /\ rw_call = NoCall
    /\ OthersIdleRunway

TakeoffCheckedAndRecorded ==
    \E drone \in Drones, event_time \in 0..MaxTime :
        /\ RecordedTotal < MaxRecorded
        /\ takeoff_runway_capacity(drone, event_time, RunwayResources).result
        /\ runway_occupancy' =
               update_runway_occupancy(DroneAirport(drone), event_time,
                                       TakeoffDurationOf(RunwayResources),
                                       drone, "takeoff", runway_occupancy)
        /\ rw_call' = [op |-> "update_runway_occupancy",
                       airport_id |-> DroneAirport(drone),
                       event_time |-> event_time,
                       event_duration |-> TakeoffDurationOf(RunwayResources),
                       drone_id |-> drone, event_type |-> "takeoff",
                       before |-> RunwayResources]
        /\ UNCHANGED <<runway_counts, takeoff_duration, landing_duration>>
        /\ UNCHANGED not_runway_vars

LandingCheckedAndRecorded ==
    \E drone \in Drones, event_time \in 0..MaxTime :
        /\ RecordedTotal < MaxRecorded
        /\ landing_runway_capacity(drone, event_time, RunwayResources).result
        /\ runway_occupancy' =
               update_runway_occupancy(DroneAirport(drone), event_time,
                                       LandingDurationOf(RunwayResources),
                                       drone, "landing", runway_occupancy)
        /\ rw_call' = [op |-> "update_runway_occupancy",
                       airport_id |-> DroneAirport(drone),
                       event_time |-> event_time,
                       event_duration |-> LandingDurationOf(RunwayResources),
                       drone_id |-> drone, event_type |-> "landing",
                       before |-> RunwayResources]
        /\ UNCHANGED <<runway_counts, takeoff_duration, landing_duration>>
        /\ UNCHANGED not_runway_vars

\* A check that returned False: nothing is recorded.
TakeoffRefused ==
    \E drone \in Drones, event_time \in 0..MaxTime :
        /\ ~takeoff_runway_capacity(drone, event_time, RunwayResources).result
        /\ rw_call' = [op |-> "takeoff_runway_capacity", drone |-> drone,
                       event_time |-> event_time,
                       ret |-> takeoff_runway_capacity(drone, event_time, RunwayResources)]
        /\ UNCHANGED <<runway_counts, takeoff_duration, landing_duration,
                       runway_occupancy>>
        /\ UNCHANGED not_runway_vars

LandingRefused ==
    \E drone \in Drones, event_time \in 0..MaxTime :
        /\ ~landing_runway_capacity(drone, event_time, RunwayResources).result
        /\ rw_call' = [op |-> "landing_runway_capacity", drone |-> drone,
                       event_time |-> event_time,
                       ret |-> landing_runway_capacity(drone, event_time, RunwayResources)]
        /\ UNCHANGED <<runway_counts, takeoff_duration, landing_duration,
                       runway_occupancy>>
        /\ UNCHANGED not_runway_vars

NextDiscipline ==
    \/ TakeoffCheckedAndRecorded
    \/ LandingCheckedAndRecorded
    \/ TakeoffRefused
    \/ LandingRefused

SpecDiscipline == InitDiscipline /\ [][NextDiscipline]_vars

not_geo_vars == <<runway_vars, seq_vars, payload_vars, workload_vars, weight_vars, sort_vars, status_vars, readonly_vars, eff_vars, tw_vars>>

InitGeo ==
    /\ geo_call = NoGeoCall
    /\ RunwayIdle /\ SeqIdle /\ PayloadIdle /\ WorkloadIdle /\ WeightIdle /\ SortIdle /\ StatusIdle /\ ReadOnlyIdle /\ EfficiencyIdle /\ TimeWindowIdle

LineOfSightCheck ==
    \E import_ok \in BOOLEAN, target_dims \in {2, 3}, raises_at \in LosFailures,
       is_visible \in BOOLEAN :
        /\ geo_call = NoGeoCall
        /\ raises_at = "elevation" => target_dims = 2
        /\ geo_call' = [op |-> "line_of_sight_check", import_ok |-> import_ok,
                        target_dims |-> target_dims, raises_at |-> raises_at,
                        is_visible |-> is_visible,
                        outcome |-> line_of_sight_check(import_ok, target_dims,
                                                        raises_at, is_visible)]
        /\ UNCHANGED not_geo_vars

ThreatSafetyCheck ==
    \E import_ok \in BOOLEAN, oracle_raises \in BOOLEAN, is_safe \in BOOLEAN :
        /\ geo_call = NoGeoCall
        /\ geo_call' = [op |-> "threat_safety_check", import_ok |-> import_ok,
                        raises_at |-> IF oracle_raises THEN "is_safe_from_threats"
                                      ELSE "none",
                        is_safe |-> is_safe,
                        outcome |-> threat_safety_check(import_ok, oracle_raises, is_safe)]
        /\ UNCHANGED not_geo_vars

PositionScoring ==
    \E import_ok \in BOOLEAN, raises_at \in {"none", "target", "occupied"},
       distance_to_target \in TargetDistances, resources \in ScoringResources :
        /\ geo_call = NoGeoCall
        /\ raises_at = "occupied" => resources.occupied_distances # <<>>
        /\ geo_call' = [op |-> "position_scoring", import_ok |-> import_ok,
                        raises_at |-> raises_at,
                        distance_to_target |-> distance_to_target,
                        resources |-> resources,
                        outcome |-> position_scoring(import_ok, raises_at,
                                                     distance_to_target, resources)]
        /\ UNCHANGED not_geo_vars

\* The caller takes the outcome.
GeoReturn ==
    /\ geo_call # NoGeoCall
    /\ geo_call' = NoGeoCall
    /\ UNCHANGED not_geo_vars

NextGeo == LineOfSightCheck \/ ThreatSafetyCheck \/ PositionScoring \/ GeoReturn

SpecGeo == InitGeo /\ [][NextGeo]_vars

not_eff_vars == <<runway_vars, seq_vars, payload_vars, workload_vars, weight_vars, sort_vars, status_vars, readonly_vars, geo_vars, tw_vars>>

InitEfficiency ==
    /\ eff_solution \in EffSolutions
    /\ eff_replay \in [EffDrones -> ReplayOutcomes]
    /\ eff_call = NoEffCall
    /\ RunwayIdle /\ SeqIdle /\ PayloadIdle /\ WorkloadIdle /\ WeightIdle /\ SortIdle /\ StatusIdle /\ ReadOnlyIdle /\ GeoIdle /\ TimeWindowIdle

TotalDistanceMinimization ==
    /\ eff_call.op # "total_distance_minimization"
    /\ eff_call' = [op |-> "total_distance_minimization", before |-> eff_solution,
                    kind |-> total_distance_minimization(eff_solution, eff_replay).kind]
    /\ eff_solution' = total_distance_minimization(eff_solution, eff_replay).solution
    /\ UNCHANGED eff_replay
    /\ UNCHANGED not_eff_vars

CompletionTimeMinimization ==
    /\ eff_call.op # "completion_time_minimization"
    /\ eff_call' = [op |-> "completion_time_minimization", before |-> eff_solution,
                    kind |-> completion_time_minimization(eff_solution, eff_replay).kind]
    /\ eff_solution' = completion_time_minimization(eff_solution, eff_replay).solution
    /\ UNCHANGED eff_replay
    /\ UNCHANGED not_eff_vars

NextEfficiency == TotalDistanceMinimization \/ CompletionTimeMinimization

SpecEfficiency == InitEfficiency /\ [][NextEfficiency]_vars

not_tw_vars == <<runway_vars, seq_vars, payload_vars, workload_vars, weight_vars, sort_vars, status_vars, readonly_vars, geo_vars, eff_vars>>

InitTimeWindow ==
    /\ tw_call = NoTimeWindowCall
    /\ RunwayIdle /\ SeqIdle /\ PayloadIdle /\ WorkloadIdle /\ WeightIdle /\ SortIdle /\ StatusIdle /\ ReadOnlyIdle /\ GeoIdle /\ EfficiencyIdle

TimeWindowConstraint ==
    \E drone \in TimeWindowDrones, task \in TimeWindowTasks,
       distance \in TimeWindowDistances :
        /\ tw_call = NoTimeWindowCall
        /\ tw_call' = [op |-> "time_window_constraint", drone |-> drone,
                       task |-> task, distance |-> distance,
                       ret |-> time_window_constraint(drone, task, distance)]
        /\ UNCHANGED not_tw_vars

\* The caller takes the verdict.
TimeWindowReturn ==
    /\ tw_call # NoTimeWindowCall
    /\ tw_call' = NoTimeWindowCall
    /\ UNCHANGED not_tw_vars

NextTimeWindow == TimeWindowConstraint \/ TimeWindowReturn

SpecTimeWindow == InitTimeWindow /\ [][NextTimeWindow]_vars

(***************************************************************************)
(* Claims about the runway rules                                           *)
(***************************************************************************)

IsRunwayCheck ==
    /\ rw_call.op \in {"takeoff_runway_capacity", "landing_runway_capacity"}
    /\ DroneAirport(rw_call.drone) # Absent

\* The request of the last check: its airport's list, start, duration and
\* runway count as the claim names them.
ReqOccupancy == Get(runway_occupancy, DroneAirport(rw_call.drone), <<>>)

ReqDuration ==
    IF rw_call.op = "takeoff_runway_capacity"
    THEN (IF takeoff_duration = Absent THEN DefaultTakeoffDuration ELSE takeoff_duration)
    ELSE (IF landing_duration = Absent THEN DefaultLandingDuration ELSE landing_duration)

ReqRunwayCount ==
    IF DroneAirport(rw_call.drone) \in DOMAIN runway_counts
    THEN runway_counts[DroneAirport(rw_call.drone)] ELSE DefaultRunwayCount

\* The recorded windows [s,e) that share an instant span with [t,t+d): s < t+d and t < e.
HalfOpenOverlaps(occ, t, d) ==
    {i \in DOMAIN occ : occ[i][1] < t + d /\ t < occ[i][2]}

\* The recorded windows that only touch the request: e = t or s = t+d.
Touching(occ, t, d) ==
    {i \in DOMAIN occ : occ[i][2] = t \/ occ[i][1] = t + d}

\* C1: for takeoff_runway_capacity and landing_runway_capacity alike, for a drone
\* with a home airport, the check returns False exactly when the number of
\* recorded windows of that airport that overlap [t,t+d) under half-open overlap
\* is >= the runway count (1 when none is configured); a window that ends at the
\* request start or starts at the request end is not counted.
C1_RunwayCapacity ==
    IsRunwayCheck =>
        LET occ == ReqOccupancy
            t == rw_call.event_time
            d == ReqDuration
            n == Cardinality(HalfOpenOverlaps(occ, t, d))
        IN  /\ (rw_call.ret.result = FALSE) <=> (n >= ReqRunwayCount)
            /\ rw_call.ret.overlapping_count = n
            /\ rw_call.ret.overlapping_count
                   <= Cardinality(DOMAIN occ \ Touching(occ, t, d))

\* C1 witness: a check at an airport with one window that ends exactly at the
\* request start and one window that overlaps the request; the single (default)
\* runway is taken, so the check returned False with one overlap counted.
C1_Witness ==
    /\ IsRunwayCheck
    /\ \E i \in DOMAIN ReqOccupancy : ReqOccupancy[i][2] = rw_call.event_time
    /\ rw_call.ret.overlapping_count = 1
    /\ Len(ReqOccupancy) = 2
    /\ ReqRunwayCount = DefaultRunwayCount
    /\ rw_call.ret.result = FALSE

(***************************************************************************)
(* Claims about check_drone_task_sequence                                  *)
(***************************************************************************)

\* The main logic (lines 493-554) has returned.
SeqDone == seq_pc = "done"

\* The status the returned map holds for the id at index j, Absent when the
\* map has no entry for it.
StatusAt(j) ==
    IF task_ids[j] \in DOMAIN results THEN results[task_ids[j]] ELSE "no entry"

\* The input list names no task id twice.
DistinctIds == \A j, k \in 1..Len(task_ids) : task_ids[j] = task_ids[k] => j = k

\* C2: in any call where the task at index k is the first found not feasible
\* (by the collaborator's verdict, an exception during the check, or a failure
\* while advancing the state), every task at an index > k is reported with the
\* cascade reason.  (Stated for lists without repeated ids, where an entry of
\* the map belongs to one index.)
C2_CascadeAfterFirstFailure ==
    (SeqDone /\ first_fail # 0 /\ DistinctIds) =>
        \A j \in (first_fail + 1)..Len(task_ids) : StatusAt(j) = Cascade

\* C3: when the call returns, the result map holds an entry for every task id
\* of the input list, each the feasible marker or a reason string, and the
\* result is either all feasible or a first failure followed by the cascade
\* reason for all the remaining tasks.  (Stated for lists without repeated ids.)
C3_EveryTaskReported ==
    (SeqDone /\ DistinctIds) =>
        /\ \A j \in 1..Len(task_ids) :
               task_ids[j] \in DOMAIN results /\ results[task_ids[j]] \in Statuses
        /\ \/ \A j \in 1..Len(task_ids) : StatusAt(j) = Feasible
           \/ /\ first_fail # 0
              /\ \A j \in (first_fail + 1)..Len(task_ids) :
                     task_ids[j] \in DOMAIN results /\ StatusAt(j) = Cascade

\* The call stopped at index i because task_ids[i] is not in the dictionary.
StoppedAtUnknown ==
    /\ SeqDone
    /\ first_fail # 0
    /\ task_ids[first_fail] \notin task_dict

\* Nothing at or after the first failure was evaluated or simulated.
NothingFurtherDone ==
    /\ \A j \in evaluated : j < first_fail
    /\ legs = first_fail - 1
    /\ seq_i = first_fail

\* C4 as stated: the unknown task id and every task id after it are all marked
\* with the cascade reason, and nothing further is evaluated or simulated.
C4_UnknownMarkedCascade ==
    StoppedAtUnknown =>
        /\ \A j \in first_fail..Len(task_ids) : StatusAt(j) = Cascade
        /\ NothingFurtherDone

\* C4 amended: every task id after the unknown one is marked with the cascade
\* reason; the unknown id itself is marked "task does not exist", unless it
\* occurs again later in the list, where the cascade mark overwrites it; the
\* earlier tasks were found feasible and nothing further is evaluated or
\* simulated.
C4_UnknownThenCascade ==
    StoppedAtUnknown =>
        /\ \A j \in (first_fail + 1)..Len(task_ids) : StatusAt(j) = Cascade
        /\ StatusAt(first_fail) =
               IF \E j \in (first_fail + 1)..Len(task_ids) : task_ids[j] = task_ids[first_fail]
               THEN Cascade ELSE TaskMissing
        /\ \A j \in 1..(first_fail - 1) :
               StatusAt(j) \in {Feasible, Cascade} /\ j \in evaluated
        /\ NothingFurtherDone

\* C4 witness: three tasks, the first feasible, the second unknown and not
\* repeated, the third blocked.
C4_Witness ==
    /\ StoppedAtUnknown
    /\ first_fail = 2
    /\ Len(task_ids) = 3
    /\ task_ids[3] # task_ids[2]
    /\ StatusAt(1) = Feasible
    /\ StatusAt(2) = TaskMissing
    /\ StatusAt(3) = Cascade

(***************************************************************************)
(* Claims about payload_capacity                                           *)
(***************************************************************************)

IsPayloadCall == pl_call.op = "payload_capacity"

\* The requirements of the last call's task, as a set of items.
ReqItems ==
    IF pl_call.task.has_required_payloads
    THEN {pl_call.task.required_payloads[k] : k \in DOMAIN pl_call.task.required_payloads}
    ELSE {}

\* (1) every required kind is declared by the drone with range and level at
\* least the required ones.
ShapeMatches ==
    \A item \in ReqItems :
        /\ pl_call.drone.has_payload_capability
        /\ item[1] \in DOMAIN pl_call.drone.payload_capability
        /\ pl_call.drone.payload_capability[item[1]][1] >= item[2][1]
        /\ pl_call.drone.payload_capability[item[1]][2] >= item[2][2]

\* The ledger's count for the strike kind, 0 when absent.
StrikeInventory ==
    IF weapon_inventory.has_weapon_inventory
       /\ StrikeKind \in DOMAIN weapon_inventory.weapon_inventory
    THEN weapon_inventory.weapon_inventory[StrikeKind] ELSE 0

\* (2) when the task requires the strike kind, the inventory covers the
\* required quantity.
SupplySuffices ==
    \A item \in ReqItems : item[1] = StrikeKind => StrikeInventory >= item[2][2]

\* C5: payload_capacity returns True iff the shape matches (1) and the strike
\* inventory suffices (2); whenever (1) fails the result is False whatever the
\* inventory holds, and the inventory is not inspected.
C5_PayloadTwoPhase ==
    IsPayloadCall =>
        /\ pl_call.ret = (ShapeMatches /\ SupplySuffices)
        /\ ~ShapeMatches => (pl_call.ret = FALSE /\ ~pl_call.inspected)

\* C5 witness: the task requires the strike kind, which the drone matches and
\* the inventory covers, and a second kind the drone falls short of: the call
\* returned False without inspecting the inventory.
C5_Witness ==
    /\ IsPayloadCall
    /\ Cardinality(ReqItems) = 2
    /\ \E item \in ReqItems : item[1] = StrikeKind /\ item[2][2] > 0
    /\ SupplySuffices
    /\ pl_call.drone.has_payload_capability
    /\ DOMAIN pl_call.drone.payload_capability = PayloadKinds
    /\ ~ShapeMatches
    /\ pl_call.ret = FALSE
    /\ ~pl_call.inspected

\* The last call is the depleted case: the shape matches and the required
\* strike weapon is short in the inventory.
DepletedCall == IsPayloadCall /\ ShapeMatches /\ ~SupplySuffices

\* A drone of a mismatching shape for any task with requirements: it declares
\* no payload capability.
BareDrone == [has_payload_capability |-> FALSE, payload_capability |-> <<>>]

\* C6 as stated: the depleted case fails with an outcome that, as returned to
\* the caller, differs from the outcome returned for a shape mismatch.
C6_DepletedDistinguishable ==
    DepletedCall =>
        /\ pl_call.ret = FALSE
        /\ pl_call.ret # payload_capacity(BareDrone, pl_call.task, weapon_inventory).result

\* C6 amended: the depleted case fails: it returns False, the same value a shape
\* mismatch returns; the two differ only in the message printed last
\* (insufficient weapon inventory against payload match failed).
C6_DepletedFailsSameValue ==
    DepletedCall =>
        /\ pl_call.ret = FALSE
        /\ pl_call.ret = payload_capacity(BareDrone, pl_call.task, weapon_inventory).result
        /\ pl_call.msg = MsgInventoryShort
        /\ payload_capacity(BareDrone, pl_call.task, weapon_inventory).msg = MsgMatchFailed

\* C6 witness: the drone matches a strike requirement of quantity 1 and the
\* inventory holds none.
C6_Witness ==
    /\ DepletedCall
    /\ StrikeInventory = 0
    /\ weapon_inventory.has_weapon_inventory
    /\ pl_call.ret = FALSE
    /\ pl_call.inspected

(***************************************************************************)
(* Claims about _check_airport_constraints                                 *)
(***************************************************************************)

IsWorkloadCall == wl_call.op = "check_airport_constraints"

\* The drones of the call's airport that have a non-empty task list.
BusyDrones ==
    {d \in Fleet : /\ d[1] = wl_call.airport_id
                   /\ DroneKey(d[1], d[2]) \in DOMAIN assignments
                   /\ assignments[DroneKey(d[1], d[2])] # <<>>}

\* Those of the target's type.
BusyOfType == {d \in BusyDrones : drone_info[DroneKey(d[1], d[2])] = wl_call.drone_type}

CallAirport == airports[wl_call.airport_id]

\* The per-type limit of the target's type, 0 when absent.
CallTypeLimit ==
    IF CallAirport.has_type_limits /\ wl_call.drone_type \in DOMAIN CallAirport.type_limits
    THEN CallAirport.type_limits[wl_call.drone_type] ELSE 0

\* The target is not yet among the drones with tasks.
TargetIsNew ==
    \A k \in DOMAIN assignments : k = wl_call.target_drone_key => assignments[k] = <<>>

\* Adding the target would exceed a limit: the target is new, and with it the
\* airport's busy drones would outnumber total_limits, or those of its type the
\* per-type limit.
WouldExceed ==
    /\ TargetIsNew
    /\ \/ CallAirport.has_total_limits
          /\ Cardinality(BusyDrones) + 1 > CallAirport.total_limits
       \/ Cardinality(BusyOfType) + 1 > CallTypeLimit

\* The scenario of the claim: total_limit = 2, type_limit = {A: 1}, two type-A
\* drones already assigned, the target a third type-A drone with no assignment.
WorkloadScenario ==
    /\ IsWorkloadCall
    /\ CallAirport.has_total_limits /\ CallAirport.total_limits = 2
    /\ CallAirport.has_type_limits /\ CallAirport.type_limits = [t \in {TypeA} |-> 1]
    /\ Cardinality(BusyOfType) = 2
    /\ wl_call.drone_type = TypeA
    /\ wl_call.target_drone_key \notin DOMAIN assignments
    /\ wl_call.target_drone_key = DroneKey(wl_call.airport_id, 3)

\* C7: the rule counts, from the solution's assignments, the drones of the
\* airport with a non-empty task list (in total and per type) and returns False
\* whenever adding the target would exceed total_limits or the per-type limit
\* of the target's type (0 when absent), and True otherwise; in the scenario the
\* third type-A drone is rejected.
C7_ControllerWorkload ==
    IsWorkloadCall =>
        /\ wl_call.ret = ~WouldExceed
        /\ WorkloadScenario => wl_call.ret = FALSE

\* C7 witness: the scenario was checked and the target rejected.
C7_Witness == WorkloadScenario /\ wl_call.ret = FALSE

(***************************************************************************)
(* Claims about the task weight                                            *)
(***************************************************************************)

IsWeightCall == wt_call # NoWeightCall

\* The task of the call with its priority replaced.
WithPriority(p) == [wt_call.task EXCEPT !.priority = p]

\* Two priorities that the clamp of line 579 maps to one value.
ClampedAlike(p1, p2) == (p1 <= 1 /\ p2 <= 1) \/ (p1 >= 10 /\ p2 >= 10)

\* C8 (as stated): of two tasks identical in every attribute except
\* priority, the one with the lower priority number has strictly greater
\* weight.
C8_StrictlyMonotone ==
    (IsWeightCall /\ wt_call.task.has_priority) =>
        \A p2 \in 0..MaxPriority :
            wt_call.task.priority < p2 =>
                wt_call.ret > calculate_task_weight(WithPriority(p2))

\* C8 (amended): of two tasks identical in every attribute except priority,
\* the one with the lower priority number has a weight at least as great,
\* and a strictly greater one exactly when the two priorities differ after
\* clamping into [1,10]; priorities that clamp alike (0 and 1, 10 and 11)
\* weigh the same.
C8_MonotoneAfterClamp ==
    (IsWeightCall /\ wt_call.task.has_priority) =>
        \A p2 \in 0..MaxPriority :
            wt_call.task.priority < p2 =>
                /\ wt_call.ret >= calculate_task_weight(WithPriority(p2))
                /\ (wt_call.ret > calculate_task_weight(WithPriority(p2)))
                       <=> ~ClampedAlike(wt_call.task.priority, p2)

\* A task of priority 0 has been weighed, and weighs what it would with
\* priority 1 and more than it would with priority 2.
C8_Witness ==
    /\ IsWeightCall
    /\ wt_call.task.has_priority
    /\ wt_call.task.priority = 0
    /\ wt_call.ret = calculate_task_weight(WithPriority(1))
    /\ wt_call.ret > calculate_task_weight(WithPriority(2))

\* The priority the closed form uses.
EffectivePriority(task) ==
    IF ~task.has_priority THEN 5
    ELSE IF task.priority < 1 THEN 1
    ELSE IF task.priority > 10 THEN 10
    ELSE task.priority

CountedAsOne(n) == IF n = 0 THEN 1 ELSE n

\* C9: calculate_task_weight(task) = (11 - clamp(priority,1,10)) * 7
\* + min(duration_hours * 0.3, 3) + min(payload_count * 0.6, 3)
\* + 9 / type_count + min(bandwidth / 10 * 0.9, 9), the counts taken as 1
\* when empty and the priority as 5 when missing.  In units of 1/12000 the
\* terms are 84000 per priority step, one per second of duration up to
\* 36000, 7200 per payload up to 36000, 108000 divided by the type count,
\* and 1080 per unit of bandwidth up to 108000.
C9_WeightFormula ==
    IsWeightCall =>
        LET task == wt_call.task
            rest == wt_call.ret
                    - (11 - EffectivePriority(task)) * 84000
                    - Min(task.duration, 36000)
                    - Min(CountedAsOne(task.n_payloads) * 7200, 36000)
                    - Min(task.bandwidth * 1080, 108000)
        IN  rest * CountedAsOne(task.n_types) = 108000

\* A task without a priority, longer than ten hours, with no payloads, two
\* or more types and a bandwidth above 100 has been weighed.
C9_Witness ==
    /\ IsWeightCall
    /\ ~wt_call.task.has_priority
    /\ wt_call.task.duration > 36000
    /\ wt_call.task.n_payloads = 0
    /\ wt_call.task.n_types >= 2
    /\ wt_call.task.bandwidth > 100
    /\ wt_call.ret > 0

(***************************************************************************)
(* Claims about the sort by weight                                         *)
(***************************************************************************)

SortDone == sort_pc = "done"

RECURSIVE Occurrences(_, _)
Occurrences(list, task) ==
    IF list = <<>> THEN 0
    ELSE (IF Head(list) = task THEN 1 ELSE 0) + Occurrences(Tail(list), task)

\* The tasks of a list whose sort key is w, in the order of the list.
RECURSIVE WithKey(_, _)
WithKey(list, w) ==
    IF list = <<>> THEN <<>>
    ELSE (IF sort_key(Head(list)) = w THEN <<Head(list)>> ELSE <<>>)
             \o WithKey(Tail(list), w)

\* C10: sort_tasks_by_weight returns a permutation of the input (same
\* tasks, same multiplicities) in which the weights do not increase from
\* front to back, and tasks of equal weight keep the relative order they
\* had in the input.  A task whose weight cannot be computed is ranked with
\* the 0.0 the code gives it.
C10_StableDescendingPermutation ==
    SortDone =>
        /\ Len(sort_ret) = Len(sort_tasks)
        /\ \A task \in SortPool :
               Occurrences(sort_ret, task) = Occurrences(sort_tasks, task)
        /\ \A k \in 1..(Len(sort_ret) - 1) :
               sort_key(sort_ret[k]) >= sort_key(sort_ret[k + 1])
        /\ \A k \in 1..Len(sort_tasks) :
               WithKey(sort_ret, sort_key(sort_tasks[k]))
                   = WithKey(sort_tasks, sort_key(sort_tasks[k]))

\* A list has been sorted in which two different tasks of equal weight came
\* before a heavier one.
C10_Witness ==
    /\ SortDone
    /\ \E i, j, k \in 1..Len(sort_tasks) :
           /\ i < j /\ j < k
           /\ sort_tasks[i] # sort_tasks[j]
           /\ sort_key(sort_tasks[i]) = sort_key(sort_tasks[j])
           /\ sort_key(sort_tasks[k]) > sort_key(sort_tasks[i])
           /\ sort_ret = <<sort_tasks[k], sort_tasks[i], sort_tasks[j]>>

(***************************************************************************)
(* Claims about the airport status rules                                   *)
(***************************************************************************)

IsOpenCheck == st_call.op = "airport_open_check"

\* The updates made so far for an airport id, in order.
UpdatesFor(id) == SelectSeq(status_updates, LAMBDA u : u[1] = id)

\* The ledger has a recorded status for the id.
HasRecordedStatus(id) ==
    airport_status.has_airport_status /\ id \in DOMAIN airport_status.airport_status

\* C11: airport_open_check returns the airport object's own open flag when
\* it carries one; otherwise the ledger's recorded status for the airport
\* id; otherwise (no flag and no resources, no status map or no entry for
\* the id) True.  After any sequence of update_airport_status calls the
\* recorded status of an id is the value of the most recent update for it.
\* The check changes neither the ledger nor the airport.
C11_AirportOpenCheck ==
    /\ \A id \in Airports :
           UpdatesFor(id) # <<>> =>
               /\ HasRecordedStatus(id)
               /\ airport_status.airport_status[id]
                      = UpdatesFor(id)[Len(UpdatesFor(id))][2]
    /\ IsOpenCheck =>
           /\ st_call.ret =
                  (IF st_call.airport.has_is_open THEN st_call.airport.is_open
                   ELSE IF st_call.resources # NoResources
                           /\ HasRecordedStatus(st_call.airport.id)
                   THEN airport_status.airport_status[st_call.airport.id]
                   ELSE TRUE)
           /\ st_call.resources # NoResources => airport_status = st_call.resources
           /\ st_call.airport_after = st_call.airport

\* An airport without an open flag was closed, opened and closed again by
\* updates, and the check with the ledger then returned False.
C11_Witness ==
    /\ IsOpenCheck
    /\ ~st_call.airport.has_is_open
    /\ st_call.resources # NoResources
    /\ Len(UpdatesFor(st_call.airport.id)) = 3
    /\ UpdatesFor(st_call.airport.id)[2][2] = TRUE
    /\ UpdatesFor(st_call.airport.id)[3][2] = FALSE
    /\ st_call.ret = FALSE

(***************************************************************************)
(* Claims about the read-only rules                                        *)
(***************************************************************************)

CalledOnce == ro_call # NoReadOnlyCall

CalledTwice == ro_again # NoReadOnlyCall

IsOccupancyUpdate == rw_call.op = "update_runway_occupancy"

\* The tuple the last update recorded.
RecordedTuple ==
    <<rw_call.event_time, rw_call.event_time + rw_call.event_duration,
      rw_call.drone_id, rw_call.event_type>>

\* C13: update_runway_occupancy is append-only: afterwards the list of
\* airport_id is its previous list (empty if it had none) followed by the
\* one tuple (t, t+d, drone_id, kind), nothing removed, merged, reordered or
\* deduplicated; the lists of the other airports and every other ledger
\* field are as before.
C13_AppendOnly ==
    IsOccupancyUpdate =>
        LET previous == rw_call.before.runway_occupancy
        IN  /\ DOMAIN runway_occupancy = (DOMAIN previous) \cup {rw_call.airport_id}
            /\ runway_occupancy[rw_call.airport_id]
                   = (IF rw_call.airport_id \in DOMAIN previous
                      THEN previous[rw_call.airport_id] ELSE <<>>)
                     \o <<RecordedTuple>>
            /\ \A a \in DOMAIN previous :
                   a # rw_call.airport_id => runway_occupancy[a] = previous[a]
            /\ runway_counts = rw_call.before.runway_counts
            /\ takeoff_duration = rw_call.before.takeoff_duration
            /\ landing_duration = rw_call.before.landing_duration

\* The same event was recorded twice: the list holds it twice.
C13_Witness ==
    /\ IsOccupancyUpdate
    /\ runway_occupancy[rw_call.airport_id] = <<RecordedTuple, RecordedTuple>>

(***************************************************************************)
(* Claims about the check-then-record discipline                           *)
(***************************************************************************)

\* The recorded windows [s,e) of a list that contain the instant x.
WindowsContaining(occ, x) == {i \in DOMAIN occ : occ[i][1] <= x /\ x < occ[i][2]}

\* The instants to look at: the windows have whole endpoints, so the most
\* windows meet at a whole instant.
Instants == 0..(MaxTime + Max(MaxDur, Max(DefaultTakeoffDuration, DefaultLandingDuration)))

RunwayCountOf(a) == IF a \in DOMAIN runway_counts THEN runway_counts[a] ELSE DefaultRunwayCount

\* C18: when events are recorded only right after the check for the same
\* airport, time and duration returned True, starting from an empty list, no
\* instant is inside more recorded windows of an airport than the airport
\* has runways.
C18_NeverMoreThanRunways ==
    \A a \in DOMAIN runway_occupancy :
        \A x \in Instants :
            Cardinality(WindowsContaining(runway_occupancy[a], x)) <= RunwayCountOf(a)

\* An airport with more than one runway has all of them in use at some
\* instant, one more event recorded apart from these, and a check was then
\* refused.
C18_Witness ==
    /\ rw_call.op \in {"takeoff_runway_capacity", "landing_runway_capacity"}
    /\ rw_call.ret.result = FALSE
    /\ \E a \in DOMAIN runway_occupancy :
           /\ RunwayCountOf(a) > 1
           /\ a = DroneAirport(rw_call.drone)
           /\ Len(runway_occupancy[a]) > RunwayCountOf(a)
           /\ \E x \in Instants :
                  Cardinality(WindowsContaining(runway_occupancy[a], x)) = RunwayCountOf(a)

(***************************************************************************)
(* Claims about the geographic rules                                       *)
(***************************************************************************)

IsScore ==
    /\ geo_call.op = "position_scoring"
    /\ geo_call.import_ok
    /\ geo_call.outcome.kind = "return"

ScoredOccupied == geo_call.resources.occupied_distances

\* The clustering distance: the distance to the nearest occupied position.
Nearest(occ) == CHOOSE d \in {occ[i] : i \in DOMAIN occ} : \A i \in DOMAIN occ : d <= occ[i]

\* The penalty of the claim in halves: 0 from 20000 m on,
\* ((20000 - d) / 20000) * 50000 below 20000 m, 100000 more below 5000 m.
BandPenalty(occ) ==
    IF occ = <<>> THEN 0
    ELSE (IF Nearest(occ) >= 20000 THEN 0 ELSE (20000 - Nearest(occ)) * 5)
         + (IF Nearest(occ) < 5000 THEN 200000 ELSE 0)

\* The score of the same call with one occupied position at distance d.
ScoreAt(d) ==
    position_scoring(TRUE, "none", geo_call.distance_to_target,
        [geo_call.resources EXCEPT !.occupied_distances = <<d>>]).value

\* C14: for a fixed distance to the target, the penalty of position_scoring
\* is 0 with no occupied position or with the nearest at 20000 m or more,
\* ((20000-d)/20000)*50000 with the nearest at d < 20000 m, and a flat 100000
\* more for d < 5000 m; the score at 19999 m is less than at 20001 m, and
\* the score at 4999 m carries the flat penalty that the score at 5001 m
\* does not.
C14_PenaltyBands ==
    IsScore =>
        /\ geo_call.outcome.position_penalty = BandPenalty(ScoredOccupied)
        /\ geo_call.outcome.value
               = geo_call.outcome.base_score - BandPenalty(ScoredOccupied)
        /\ (ScoredOccupied # <<>> /\ Nearest(ScoredOccupied) = 19999)
               => geo_call.outcome.value < ScoreAt(20001)
        /\ (ScoredOccupied # <<>> /\ Nearest(ScoredOccupied) = 4999)
               => ScoreAt(5001) - geo_call.outcome.value = 200000 + 10

\* A position was scored with two occupied positions, the nearer one at
\* 4999 m: the penalty is the ramp's and the flat one.
C14_Witness ==
    /\ IsScore
    /\ Len(ScoredOccupied) = 2
    /\ ScoredOccupied[1] = 20001
    /\ ScoredOccupied[2] = 4999
    /\ geo_call.outcome.position_penalty = 200000 + 15001 * 5
    /\ geo_call.outcome.value < geo_call.outcome.base_score

\* A collaborator of the call failed: its module cannot be imported, or one
\* of its calls raised.
CollaboratorFailed ==
    /\ geo_call # NoGeoCall
    /\ (~geo_call.import_ok \/ geo_call.raises_at # "none")

\* C15: the geographic rules fail closed: when a collaborator is unavailable
\* or raises (for line_of_sight_check also while the elevation of a 2-D
\* target is resolved), line_of_sight_check and threat_safety_check return
\* False and position_scoring returns minus infinity; no exception reaches
\* the caller.
C15_FailClosed ==
    CollaboratorFailed =>
        geo_call.outcome =
            Returned(IF geo_call.op = "position_scoring" THEN MinusInfinity ELSE FALSE)

(***************************************************************************)
(* Claims about the efficiency rules                                       *)
(***************************************************************************)

\* The key an efficiency rule writes.
MetricKey ==
    IF eff_call.op = "total_distance_minimization" THEN "total_distance"
    ELSE "completion_time"

\* The drones with a non-empty task list whose replay succeeded.
SuccessfulReplays ==
    {k \in DOMAIN eff_call.before.assignments :
        eff_call.before.assignments[k] /\ ~eff_replay[k].raises}

RECURSIVE SumOfRanges(_)
SumOfRanges(S) ==
    IF S = {} THEN 0
    ELSE LET k == CHOOSE x \in S : TRUE
         IN  eff_replay[k].total_range + SumOfRanges(S \ {k})

\* The greatest final clock of a set of replays, 0 for none.
LatestClock(S) ==
    IF S = {} THEN 0
    ELSE CHOOSE t \in {eff_replay[k].final_time : k \in S} :
             \A k \in S : eff_replay[k].final_time <= t

\* A solution with no assignments: without the attribute, or with no
\* non-empty task list.
NoAssignments(solution) ==
    \/ ~solution.has_assignments
    \/ \A k \in DOMAIN solution.assignments : ~solution.assignments[k]

\* The call returned and wrote the value under its key.
Wrote(value) ==
    /\ eff_call.kind = "return"
    /\ eff_solution.has_metrics
    /\ MetricKey \in DOMAIN eff_solution.metrics
    /\ eff_solution.metrics[MetricKey] = value

\* C16: after total_distance_minimization, metrics["total_distance"] is the
\* sum of the cumulative ranges of the replays of the drones with a
\* non-empty task list whose replay succeeded; after
\* completion_time_minimization, metrics["completion_time"] is the greatest
\* final clock of the same replays; for a solution with no assignments both
\* calls complete without error and write 0 under their key.
C16_Metrics ==
    /\ (eff_call.op = "total_distance_minimization" /\ eff_call.before.has_assignments)
           => Wrote(SumOfRanges(SuccessfulReplays))
    /\ (eff_call.op = "completion_time_minimization" /\ eff_call.before.has_assignments)
           => Wrote(LatestClock(SuccessfulReplays))
    /\ (eff_call # NoEffCall /\ NoAssignments(eff_call.before)) => Wrote(0)

(***************************************************************************)
(* Claims about time_window_constraint                                     *)
(***************************************************************************)

IsTimeWindowCall == tw_call # NoTimeWindowCall

\* The quantities of the claim for the last call, each times the drone's
\* speed: travel_time = distance / speed, the actual takeoff
\* max(0, task.start - travel_time), earliest_arrival and actual_start.
ClaimStart == tw_call.task.start_time * tw_call.drone.speed

ClaimEnd == tw_call.task.end_time * tw_call.drone.speed

ClaimTakeoff ==
    IF ClaimStart - tw_call.distance > 0 THEN ClaimStart - tw_call.distance ELSE 0

ClaimEarliestArrival == ClaimTakeoff + tw_call.distance

ClaimActualStart ==
    IF ClaimEarliestArrival > ClaimStart THEN ClaimEarliestArrival ELSE ClaimStart

\* The scenario of the claim: window [100,200), duration 50, travel time 30.
IsScenario ==
    /\ IsTimeWindowCall
    /\ tw_call.drone.has_speed /\ tw_call.drone.speed > 0
    /\ tw_call.task.start_time = 100
    /\ tw_call.task.has_end_time /\ tw_call.task.end_time = 200
    /\ tw_call.task.duration = 50
    /\ tw_call.distance = 30 * tw_call.drone.speed

\* C17: for a drone with positive speed time_window_constraint returns True
\* exactly when earliest_arrival <= task.end and actual_start + duration <=
\* task.end (a task without an end has none to miss); in the scenario the
\* takeoff is at 70, the arrival and the start at 100, and the task is
\* feasible; a drone with no speed or a speed <= 0 is infeasible.
C17_TimeWindow ==
    IsTimeWindowCall =>
        /\ (~tw_call.drone.has_speed \/ tw_call.drone.speed <= 0) => tw_call.ret = FALSE
        /\ (tw_call.drone.has_speed /\ tw_call.drone.speed > 0) =>
               (tw_call.ret = TRUE <=>
                    (tw_call.task.has_end_time =>
                        /\ ClaimEarliestArrival <= ClaimEnd
                        /\ ClaimActualStart + tw_call.task.duration * tw_call.drone.speed
                               <= ClaimEnd))
        /\ IsScenario =>
               /\ ClaimTakeoff = 70 * tw_call.drone.speed
               /\ ClaimEarliestArrival = 100 * tw_call.drone.speed
               /\ ClaimActualStart = 100 * tw_call.drone.speed
               /\ tw_call.ret = TRUE

\* The scenario was checked for a drone of speed 2 and found feasible.
C17_Witness ==
    /\ IsScenario
    /\ tw_call.drone.speed = 2
    /\ tw_call.ret = TRUE

=============================================================================
